---- MODULE Spec2Model ----
(***************************************************************************)
(* Soko Tabiri settlement core: the constant-product pricing engine, the   *)
(* trade transaction, the settlement-job routes and the oracle             *)
(* attestation / dispute routes, modelled over a relational store with     *)
(* row locks and READ COMMITTED transactions.                              *)
(***************************************************************************)
EXTENDS Integers, Sequences, FiniteSets, TLC

(***************************************************************************)
(* Bounds of the model                                                     *)
(***************************************************************************)
\* initial yes_shares = no_shares of every pool (the schema seeds 1000000)
PoolShares == 10
\* no new trade request is accepted once this many fills are committed
MaxFills == 2
\* no new submit request is accepted once this many jobs are persisted
MaxJobs == 2
\* no new attestation / dispute / stake once the table holds this many rows
MaxAttestations == 2
MaxDisputes == 2
MaxStakes == 2
\* the clock advances in steps of TickHours hours, up to MaxHours hours
TickHours == 24
MaxHours == 48

(***************************************************************************)
(* Program constants                                                       *)
(***************************************************************************)
SCALE == 100000
BPS_DENOMINATOR == 10000
DEFAULT_FEE_BPS == 30
DISPUTE_WINDOW_HOURS == 24
MS_PER_HOUR == 3600000
MIN_STAKE_ZAT == 100000000
ZAT_PER_ZEC == 100000000

Procs == {"p1", "p2"}
Users == {"u1", "u2"}
\* "u0" is an id with no row in users / balances
UserIds == Users \cup {"u0"}
\* "m1" is open, "m2" is resolved, "m0" has no row in markets
Markets == {"m1", "m2"}
MarketIds == Markets \cup {"m0"}
Sides == {"yes", "no"}
VALID_JOB_TYPES == {"trade_settlement", "payout", "stake_deposit", "stake_withdrawal", "slash"}
VALID_TX_TYPES == {"shielded", "transparent", "deshield"}

NULL == "null"
\* fill_id of a job row that refers to the fill inserted by the same transaction
NewFillRef == "new_fill"

VARIABLES
    pools,          \* liquidity_pools: market_id -> row
    markets,        \* markets: id -> row
    balances,       \* balances: user_id -> row
    positions,      \* positions: <<user_id, market_id, side>> -> row
    fills,          \* fills, in commit order (id = index)
    jobs,           \* settlement_jobs, in commit order (id = index)
    stakes,         \* stakes (id = index)
    attestations,   \* oracle_attestations (id = index)
    disputes,       \* disputes (id = index)
    users,          \* users: id -> row
    ALLOW_DESHIELD, \* process.env.ALLOW_DESHIELD === 'true'
    DESHIELD_KYC,   \* process.env.DESHIELD_KYC === 'true'
    now,            \* wall clock, milliseconds
    pc,             \* per request handler: the statement it is at
    req,            \* per request handler: the request body / params
    loc,            \* per request handler: its local variables
    wr,             \* per request handler: writes of its open transaction
    locks,          \* per request handler: rows its open transaction has locked
    res             \* the response sent by the last step, if it sent one

dbvars == <<pools, markets, balances, positions, fills, jobs, stakes, attestations, disputes>>
envvars == <<users, ALLOW_DESHIELD, DESHIELD_KYC>>
procvars == <<pc, req, loc, wr, locks, res>>
vars == <<dbvars, envvars, now, procvars>>

(***************************************************************************)
(* BigInt arithmetic: division truncates toward zero                       *)
(***************************************************************************)
Abs(x) == IF x < 0 THEN -x ELSE x

BigIntDiv(a, b) ==
    IF (a >= 0) = (b > 0) THEN Abs(a) \div Abs(b) ELSE -(Abs(a) \div Abs(b))

(***************************************************************************)
(* Pricing engine                                                          *)
(***************************************************************************)
Thrown(message) == [ok |-> FALSE, message |-> message]

\* Number(a) / Number(b), kept as the pair <<a, b>>
Ratio(a, b) == <<a, b>>

\* Number(a) / Number(b) / 100000000, kept as a triple
PerZec(a, b) == <<a, b, ZAT_PER_ZEC>>

calculateSharesForAmount(yesShares, noShares, side, amountZat, feeBps) ==
    LET k == yesShares * noShares
        normalizedAmount == BigIntDiv(amountZat, SCALE)
        feeAmount == BigIntDiv(normalizedAmount * feeBps, BPS_DENOMINATOR)
        amountAfterFee == normalizedAmount - feeAmount
        newOpposite == IF side = "yes" THEN noShares + amountAfterFee
                                       ELSE yesShares + amountAfterFee
    IN  IF newOpposite = 0
        THEN Thrown("Division by zero")
        ELSE LET solved == BigIntDiv(k, newOpposite)
                 newYesShares == IF side = "yes" THEN solved ELSE newOpposite
                 newNoShares == IF side = "yes" THEN newOpposite ELSE solved
                 shares == IF side = "yes" THEN yesShares - newYesShares
                                           ELSE noShares - newNoShares
             IN  IF shares <= 0
                 THEN Thrown("Trade amount too small")
                 ELSE [ok |-> TRUE,
                       shares |-> shares,
                       newYesShares |-> newYesShares,
                       newNoShares |-> newNoShares,
                       yesPrice |-> Ratio(newNoShares, newYesShares + newNoShares),
                       noPrice |-> Ratio(newYesShares, newYesShares + newNoShares),
                       avgPrice |-> PerZec(amountZat, shares),
                       fee |-> feeAmount * SCALE]

\* a % b of BigInt: the remainder has the sign of the dividend
BigIntRem(a, b) == a - b * BigIntDiv(a, b)

\* faulty variant: the solved side is rounded up even when k divides exactly
calculateTrade_AlwaysRoundUp(yesShares, noShares, side, sharesToBuy, feeBps) ==
    LET k == yesShares * noShares
        bought == IF side = "yes" THEN yesShares ELSE noShares
        opposite == IF side = "yes" THEN noShares ELSE yesShares
        newBought == bought - sharesToBuy
    IN  IF newBought <= 0
        THEN Thrown("Insufficient liquidity")
        ELSE LET newOpposite == BigIntDiv(k, newBought) + 1
                 newYesShares == IF side = "yes" THEN newBought ELSE newOpposite
                 newNoShares == IF side = "yes" THEN newOpposite ELSE newBought
                 costInOppositeShares == newOpposite - opposite
                 fee == BigIntDiv(costInOppositeShares * feeBps, BPS_DENOMINATOR)
                 totalCost == costInOppositeShares + fee
                 totalShares == newYesShares + newNoShares
             IN  IF newYesShares * newNoShares < k
                 THEN Thrown("AMM invariant violation: k decreased")
                 ELSE [ok |-> TRUE,
                       newYesShares |-> newYesShares,
                       newNoShares |-> newNoShares,
                       yesPrice |-> Ratio(newNoShares, totalShares),
                       noPrice |-> Ratio(newYesShares, totalShares),
                       costInShares |-> costInOppositeShares,
                       fee |-> fee,
                       totalCost |-> totalCost,
                       pricePerShare |-> Ratio(totalCost, sharesToBuy)]
calculateTrade(yesShares, noShares, side, sharesToBuy, feeBps) ==
    LET k == yesShares * noShares
        bought == IF side = "yes" THEN yesShares ELSE noShares
        opposite == IF side = "yes" THEN noShares ELSE yesShares
        newBought == bought - sharesToBuy
    IN  IF newBought <= 0
        THEN Thrown("Insufficient liquidity")
        ELSE LET newOpposite == IF BigIntRem(k, newBought) # 0
                                THEN BigIntDiv(k, newBought) + 1
                                ELSE BigIntDiv(k, newBought)
                 newYesShares == IF side = "yes" THEN newBought ELSE newOpposite
                 newNoShares == IF side = "yes" THEN newOpposite ELSE newBought
                 costInOppositeShares == newOpposite - opposite
                 fee == BigIntDiv(costInOppositeShares * feeBps, BPS_DENOMINATOR)
                 totalCost == costInOppositeShares + fee
                 totalShares == newYesShares + newNoShares
             IN  IF newYesShares * newNoShares < k
                 THEN Thrown("AMM invariant violation: k decreased")
                 ELSE [ok |-> TRUE,
                       newYesShares |-> newYesShares,
                       newNoShares |-> newNoShares,
                       yesPrice |-> Ratio(newNoShares, totalShares),
                       noPrice |-> Ratio(newYesShares, totalShares),
                       costInShares |-> costInOppositeShares,
                       fee |-> fee,
                       totalCost |-> totalCost,
                       pricePerShare |-> Ratio(totalCost, sharesToBuy)]

\* faulty variant: each side is priced by its own share of the pool
getPrices_OwnShare(yesShares, noShares) ==
    [yesPrice |-> Ratio(yesShares, yesShares + noShares),
     noPrice |-> Ratio(noShares, yesShares + noShares)]
getPrices(yesShares, noShares) ==
    [yesPrice |-> Ratio(noShares, yesShares + noShares),
     noPrice |-> Ratio(yesShares, yesShares + noShares)]

\* a < b of two Numbers kept as pairs (denominators are not zero)
RatioLess(x, y) ==
    IF x[2] * y[2] > 0 THEN x[1] * y[2] < y[1] * x[2]
                       ELSE x[1] * y[2] > y[1] * x[2]

(***************************************************************************)
(* The store: row locks, pending writes, commit and rollback               *)
(***************************************************************************)
NoWrites ==
    [pools |-> <<>>, markets |-> <<>>, balances |-> <<>>, positions |-> <<>>,
     fills |-> <<>>, jobs |-> <<>>, stakes |-> <<>>, newStakes |-> <<>>,
     attestations |-> <<>>, disputes |-> <<>>, newDisputes |-> <<>>]

NoRequest == [op |-> "none"]
NoLocals == [none |-> TRUE]

\* a row lock is granted when no other open transaction holds it
CanLock(p, row) == \A q \in Procs \ {p} : row \notin locks[q]

\* rows of a table with the pending updates of a transaction laid over them
Overlay(table, updates) ==
    [i \in 1..Len(table) |-> IF i \in DOMAIN updates THEN updates[i] ELSE table[i]]

ResolveFillRef(job, fillId) ==
    IF job.fill_id = NewFillRef THEN [job EXCEPT !.fill_id = fillId] ELSE job

\* COMMIT: the transaction's writes become visible together
CommitWrites(w) ==
    /\ pools' = w.pools @@ pools
    /\ markets' = w.markets @@ markets
    /\ balances' = w.balances @@ balances
    /\ positions' = w.positions @@ positions
    /\ fills' = fills \o w.fills
    /\ jobs' = jobs \o [i \in 1..Len(w.jobs) |-> ResolveFillRef(w.jobs[i], Len(fills) + 1)]
    /\ stakes' = Overlay(stakes, w.stakes) \o w.newStakes
    /\ attestations' = Overlay(attestations, w.attestations)
    /\ disputes' = Overlay(disputes, w.disputes) \o w.newDisputes

Commit(p) == CommitWrites(wr[p])

\* the handler returns: transaction state is dropped, the response is recorded
Finish(p, response) ==
    /\ pc' = [pc EXCEPT ![p] = "idle"]
    /\ req' = [req EXCEPT ![p] = NoRequest]
    /\ loc' = [loc EXCEPT ![p] = NoLocals]
    /\ wr' = [wr EXCEPT ![p] = NoWrites]
    /\ locks' = [locks EXCEPT ![p] = {}]
    /\ res' = response

\* ROLLBACK, then respond
Rollback(p, response) ==
    /\ Finish(p, response)
    /\ UNCHANGED dbvars

Goto(p, label) == pc' = [pc EXCEPT ![p] = label]

\* an HTTP response: the route, the status code, the error text and, where the
\* body carries them, the dispute_window_end (a set: empty when the body has
\* none) and the ids of the rows it is about
\* (attestations; the dispute for a resolve)
Response(op, code, error) ==
    [op |-> op, code |-> code, error |-> error, window_end |-> {}, ids |-> {}]

NoResponse == Response("none", 0, "")

\* a step of a handler that sends no response
Silent == res' = NoResponse

(***************************************************************************)
(* POST /api/trade                                                         *)
(***************************************************************************)
TradeAmounts == {0, 1, 2 * SCALE, -(2 * PoolShares * SCALE)}
TradeUserIds == UserIds
HalfFeeBps == 5000
FeeBpsValues == {0, HalfFeeBps}
MAX_RETRIES == 3
StartBalanceZat == 200000

TradeLabels ==
    {"trade_select_market", "trade_select_balance", "trade_calculate",
     "trade_update_pool", "trade_update_market", "trade_update_balance",
     "trade_update_position", "trade_insert_fill", "trade_insert_job", "trade_commit"}

\* lines 20-31: destructure the body, validate, BEGIN; amounts are the values
\* of amountZat tried
TradeRequestOf(p, amounts) ==
    /\ pc[p] = "idle"
    /\ Len(fills) < MaxFills
    /\ \E m \in MarketIds, u \in TradeUserIds, s \in Sides \cup {"maybe"}, a \in amounts :
          LET r == [op |-> "trade", marketId |-> m, userId |-> u, side |-> s, amountZat |-> a]
          IN  IF a = 0
              THEN Rollback(p, Response("trade", 400, "Missing required fields"))
              ELSE IF s \notin Sides
              THEN Rollback(p, Response("trade", 400, "Side must be yes or no"))
              ELSE /\ pc' = [pc EXCEPT ![p] = "trade_select_market"]
                   /\ req' = [req EXCEPT ![p] = r]
                   /\ UNCHANGED <<dbvars, loc, wr, locks>>
                   /\ Silent
    /\ UNCHANGED <<envvars, now>>

TradeRequest(p) == TradeRequestOf(p, TradeAmounts)

\* faulty variant: the SELECT of market and pool without FOR UPDATE OF lp
TradeSelectMarket_NoLock(p) ==
    /\ pc[p] = "trade_select_market"
    /\ LET m == req[p].marketId
       IN  IF m \notin Markets
           THEN Rollback(p, Response("trade", 404, "Market not found"))
           ELSE IF markets[m].resolved
           THEN Rollback(p, Response("trade", 400, "Market is resolved"))
           ELSE /\ loc' = [loc EXCEPT ![p] =
                             [market |-> [yes_shares |-> pools[m].yes_shares,
                                          no_shares |-> pools[m].no_shares,
                                          fee_bps |-> pools[m].fee_bps]]]
                /\ Goto(p, "trade_select_balance")
                /\ UNCHANGED <<dbvars, req, wr, locks>>
                /\ Silent
    /\ UNCHANGED <<envvars, now>>

\* lines 33-53: SELECT m.*, lp.* ... FOR UPDATE OF lp
TradeSelectMarket(p) ==
    /\ pc[p] = "trade_select_market"
    /\ LET m == req[p].marketId
       IN  IF m \notin Markets
           THEN Rollback(p, Response("trade", 404, "Market not found"))
           ELSE /\ CanLock(p, <<"liquidity_pools", m>>)
                /\ IF markets[m].resolved
                   THEN Rollback(p, Response("trade", 400, "Market is resolved"))
                   ELSE /\ locks' = [locks EXCEPT ![p] = @ \cup {<<"liquidity_pools", m>>}]
                        /\ loc' = [loc EXCEPT ![p] =
                                     [market |-> [yes_shares |-> pools[m].yes_shares,
                                                  no_shares |-> pools[m].no_shares,
                                                  fee_bps |-> pools[m].fee_bps]]]
                        /\ Goto(p, "trade_select_balance")
                        /\ UNCHANGED <<dbvars, req, wr>>
                        /\ Silent
    /\ UNCHANGED <<envvars, now>>

\* faulty variant: the balance row is read without FOR UPDATE
TradeSelectBalance_NoLock(p) ==
    /\ pc[p] = "trade_select_balance"
    /\ LET u == req[p].userId
       IN  IF u \notin DOMAIN balances
           THEN Rollback(p, Response("trade", 404, "User not found"))
           ELSE IF balances[u].available_zat < req[p].amountZat
           THEN Rollback(p, Response("trade", 400, "Insufficient balance"))
           ELSE /\ Goto(p, "trade_calculate")
                /\ UNCHANGED <<dbvars, req, loc, wr, locks>>
                /\ Silent
    /\ UNCHANGED <<envvars, now>>

\* lines 55-74: SELECT * FROM balances ... FOR UPDATE, balance check
TradeSelectBalance(p) ==
    /\ pc[p] = "trade_select_balance"
    /\ LET u == req[p].userId
       IN  IF u \notin DOMAIN balances
           THEN Rollback(p, Response("trade", 404, "User not found"))
           ELSE /\ CanLock(p, <<"balances", u>>)
                /\ IF balances[u].available_zat < req[p].amountZat
                   THEN Rollback(p, Response("trade", 400, "Insufficient balance"))
                   ELSE /\ locks' = [locks EXCEPT ![p] = @ \cup {<<"balances", u>>}]
                        /\ Goto(p, "trade_calculate")
                        /\ UNCHANGED <<dbvars, req, loc, wr>>
                        /\ Silent
    /\ UNCHANGED <<envvars, now>>

\* market.fee_bps || 30
FeeBpsOrDefault(fee_bps) == IF fee_bps = 0 THEN DEFAULT_FEE_BPS ELSE fee_bps

\* lines 76-88 and the catch of lines 166-172
TradeCalculate(p) ==
    /\ pc[p] = "trade_calculate"
    /\ LET market == loc[p].market
           trade == calculateSharesForAmount(market.yes_shares, market.no_shares,
                        req[p].side, req[p].amountZat, FeeBpsOrDefault(market.fee_bps))
       IN  IF ~trade.ok
           THEN Rollback(p, Response("trade", 500, "Failed to execute trade"))
           ELSE /\ loc' = [loc EXCEPT ![p] = [market |-> market, trade |-> trade]]
                /\ Goto(p, "trade_update_pool")
                /\ UNCHANGED <<dbvars, req, wr, locks>>
                /\ Silent
    /\ UNCHANGED <<envvars, now>>

\* a write of an open transaction: pending until COMMIT
Pending(p, table, rows) ==
    /\ wr' = [wr EXCEPT ![p][table] = rows]
    /\ UNCHANGED dbvars

\* faulty variant: the pool UPDATE goes through the autocommitting query() helper
\* instead of the transaction's client
TradeUpdatePool_Autocommit(p) ==
    /\ pc[p] = "trade_update_pool"
    /\ LET m == req[p].marketId
           trade == loc[p].trade
       IN  pools' = [pools EXCEPT ![m].yes_shares = trade.newYesShares,
                                  ![m].no_shares = trade.newNoShares]
    /\ Goto(p, "trade_update_market")
    /\ UNCHANGED <<markets, balances, positions, fills, jobs, stakes, attestations, disputes>>
    /\ UNCHANGED <<envvars, now, req, loc, wr, locks>>
    /\ Silent

\* lines 90-96: UPDATE liquidity_pools
TradeUpdatePool(p) ==
    /\ pc[p] = "trade_update_pool"
    /\ LET m == req[p].marketId
           trade == loc[p].trade
       IN  Pending(p, "pools", m :> [pools[m] EXCEPT !.yes_shares = trade.newYesShares,
                                                     !.no_shares = trade.newNoShares])
    /\ Goto(p, "trade_update_market")
    /\ UNCHANGED <<envvars, now, req, loc, locks>>
    /\ Silent

\* lines 98-104: UPDATE markets
TradeUpdateMarket(p) ==
    /\ pc[p] = "trade_update_market"
    /\ LET m == req[p].marketId
           trade == loc[p].trade
       IN  /\ CanLock(p, <<"markets", m>>)
           /\ locks' = [locks EXCEPT ![p] = @ \cup {<<"markets", m>>}]
           /\ Pending(p, "markets", m :> [markets[m] EXCEPT
                                              !.yes_price = trade.yesPrice,
                                              !.no_price = trade.noPrice,
                                              !.volume_zat = @ + req[p].amountZat])
    /\ Goto(p, "trade_update_balance")
    /\ UNCHANGED <<envvars, now, req, loc>>
    /\ Silent

\* lines 106-112: UPDATE balances
TradeUpdateBalance(p) ==
    /\ pc[p] = "trade_update_balance"
    /\ LET u == req[p].userId
       IN  Pending(p, "balances", u :> [balances[u] EXCEPT
                                            !.available_zat = @ - req[p].amountZat])
    /\ Goto(p, "trade_update_position")
    /\ UNCHANGED <<envvars, now, req, loc, locks>>
    /\ Silent

\* faulty variant: on conflict avg_price = EXCLUDED.avg_price
TradeUpsertPosition_LastPrice(p) ==
    /\ pc[p] = "trade_update_position"
    /\ LET key == <<req[p].userId, req[p].marketId, req[p].side>>
           trade == loc[p].trade
           excluded == [shares |-> trade.shares,
                        avg_price |-> trade.avgPrice,
                        cost_basis_zat |-> req[p].amountZat]
           row == IF key \in DOMAIN positions
                  THEN [shares |-> positions[key].shares + excluded.shares,
                        avg_price |-> excluded.avg_price,
                        cost_basis_zat |-> positions[key].cost_basis_zat
                                             + excluded.cost_basis_zat]
                  ELSE excluded
       IN  /\ CanLock(p, <<"positions", key>>)
           /\ locks' = [locks EXCEPT ![p] = @ \cup {<<"positions", key>>}]
           /\ Pending(p, "positions", key :> row)
    /\ Goto(p, "trade_insert_fill")
    /\ UNCHANGED <<envvars, now, req, loc>>
    /\ Silent

\* lines 114-127: INSERT INTO positions ... ON CONFLICT ... DO UPDATE
TradeUpsertPosition(p) ==
    /\ pc[p] = "trade_update_position"
    /\ LET key == <<req[p].userId, req[p].marketId, req[p].side>>
           trade == loc[p].trade
           excluded == [shares |-> trade.shares,
                        avg_price |-> trade.avgPrice,
                        cost_basis_zat |-> req[p].amountZat]
           row == IF key \in DOMAIN positions
                  THEN [shares |-> positions[key].shares + excluded.shares,
                        avg_price |-> PerZec(BigIntDiv(positions[key].cost_basis_zat
                                                         + excluded.cost_basis_zat,
                                                       positions[key].shares + excluded.shares),
                                             1),
                        cost_basis_zat |-> positions[key].cost_basis_zat
                                             + excluded.cost_basis_zat]
                  ELSE excluded
       IN  /\ CanLock(p, <<"positions", key>>)
           /\ locks' = [locks EXCEPT ![p] = @ \cup {<<"positions", key>>}]
           /\ Pending(p, "positions", key :> row)
    /\ Goto(p, "trade_insert_fill")
    /\ UNCHANGED <<envvars, now, req, loc>>
    /\ Silent

\* lines 129-135: INSERT INTO fills
TradeInsertFill(p) ==
    /\ pc[p] = "trade_insert_fill"
    /\ LET trade == loc[p].trade
       IN  Pending(p, "fills", <<[user_id |-> req[p].userId,
                                  market_id |-> req[p].marketId,
                                  side |-> req[p].side,
                                  price |-> trade.avgPrice,
                                  quantity |-> trade.shares,
                                  amount_zat |-> req[p].amountZat,
                                  fee_zat |-> trade.fee,
                                  source |-> "amm"]>>)
    /\ Goto(p, "trade_insert_job")
    /\ UNCHANGED <<envvars, now, req, loc, locks>>
    /\ Silent

\* a settlement_jobs row with the schema's column defaults (timestamps left out);
\* stake_id is a set: empty for NULL, else the id of the stake
JobRow(job_type, fill_id, stake_id, market_id, user_id, amount_zat, tx_type) ==
    [job_type |-> job_type, fill_id |-> fill_id, stake_id |-> stake_id,
     market_id |-> market_id, user_id |-> user_id, amount_zat |-> amount_zat,
     tx_type |-> tx_type, status |-> "pending",
     retry_count |-> 0, max_retries |-> MAX_RETRIES]

\* faulty variant: the job carries the amount net of the fee
TradeInsertJob_NetOfFee(p) ==
    /\ pc[p] = "trade_insert_job"
    /\ Pending(p, "jobs", <<JobRow("trade_settlement", NewFillRef, {}, req[p].marketId,
                                    req[p].userId, req[p].amountZat - loc[p].trade.fee,
                                    "shielded")>>)
    /\ Goto(p, "trade_commit")
    /\ UNCHANGED <<envvars, now, req, loc, locks>>
    /\ Silent

\* lines 137-143: INSERT INTO settlement_jobs
TradeInsertJob(p) ==
    /\ pc[p] = "trade_insert_job"
    /\ Pending(p, "jobs", <<JobRow("trade_settlement", NewFillRef, {}, req[p].marketId,
                                    req[p].userId, req[p].amountZat, "shielded")>>)
    /\ Goto(p, "trade_commit")
    /\ UNCHANGED <<envvars, now, req, loc, locks>>
    /\ Silent

\* lines 145-165: COMMIT, respond
TradeCommit(p) ==
    /\ pc[p] = "trade_commit"
    /\ Commit(p)
    /\ Finish(p, Response("trade", 200, ""))
    /\ UNCHANGED <<envvars, now>>

\* lines 166-172: a statement of the transaction throws; catch, ROLLBACK, 500
TradeError(p) ==
    /\ pc[p] \in TradeLabels
    /\ Rollback(p, Response("trade", 500, "Failed to execute trade"))
    /\ UNCHANGED <<envvars, now>>

(***************************************************************************)
(* Initial store                                                           *)
(***************************************************************************)
InitProcs ==
    /\ pc = [p \in Procs |-> "idle"]
    /\ req = [p \in Procs |-> NoRequest]
    /\ loc = [p \in Procs |-> NoLocals]
    /\ wr = [p \in Procs |-> NoWrites]
    /\ locks = [p \in Procs |-> {}]
    /\ res = NoResponse

\* migration 001_init.sql: every market has a pool with equal shares
InitMarkets(fees) ==
    /\ markets = [m \in Markets |-> [resolved |-> (m = "m2"),
                                      volume_zat |-> 0,
                                      yes_price |-> Ratio(1, 2),
                                      no_price |-> Ratio(1, 2)]]
    /\ \E fee \in fees :
          pools = [m \in Markets |-> [yes_shares |-> PoolShares,
                                      no_shares |-> PoolShares,
                                      fee_bps |-> fee]]
    /\ positions = <<>>
    /\ fills = <<>>

InitEmptyOracle ==
    /\ stakes = <<>>
    /\ attestations = <<>>
    /\ disputes = <<>>

InitTrade ==
    /\ InitProcs
    /\ InitMarkets(FeeBpsValues)
    /\ InitEmptyOracle
    /\ jobs = <<>>
    /\ balances = [u \in Users |-> [available_zat |-> StartBalanceZat, locked_zat |-> 0]]
    /\ users = [u \in Users |-> [kyc_verified |-> FALSE]]
    /\ ALLOW_DESHIELD = FALSE
    /\ DESHIELD_KYC = FALSE
    /\ now = 0

NextTrade ==
    \E p \in Procs :
        \/ TradeRequest(p)
        \/ TradeSelectMarket(p)
        \/ TradeSelectBalance(p)
        \/ TradeCalculate(p)
        \/ TradeUpdatePool(p)
        \/ TradeUpdateMarket(p)
        \/ TradeUpdateBalance(p)
        \/ TradeUpsertPosition(p)
        \/ TradeInsertFill(p)
        \/ TradeInsertJob(p)
        \/ TradeCommit(p)
        \/ TradeError(p)

SpecTrade == InitTrade /\ [][NextTrade]_vars

\* the same store with both markets open for trading (markets.resolved
\* DEFAULT FALSE) and the pools' default fee
InitTradeOpen ==
    /\ InitProcs
    /\ markets = [m \in Markets |-> [resolved |-> FALSE,
                                      volume_zat |-> 0,
                                      yes_price |-> Ratio(1, 2),
                                      no_price |-> Ratio(1, 2)]]
    /\ pools = [m \in Markets |-> [yes_shares |-> PoolShares,
                                    no_shares |-> PoolShares,
                                    fee_bps |-> DEFAULT_FEE_BPS]]
    /\ positions = <<>>
    /\ fills = <<>>
    /\ InitEmptyOracle
    /\ jobs = <<>>
    /\ balances = [u \in Users |-> [available_zat |-> StartBalanceZat, locked_zat |-> 0]]
    /\ users = [u \in Users |-> [kyc_verified |-> FALSE]]
    /\ ALLOW_DESHIELD = FALSE
    /\ DESHIELD_KYC = FALSE
    /\ now = 0

SpecTradeOpen == InitTradeOpen /\ [][NextTrade]_vars

(***************************************************************************)
(* POST /api/quote                                                         *)
(***************************************************************************)
\* lines 195-207: destructure the body and validate; amounts are the values of
\* amountZat tried
QuoteRequestOf(p, amounts) ==
    /\ pc[p] = "idle"
    /\ \E m \in MarketIds, s \in Sides \cup {"maybe"}, a \in amounts :
          IF s \notin Sides
          THEN Rollback(p, Response("quote", 400, "Side must be yes or no"))
          ELSE IF a <= 0
          THEN Rollback(p, Response("quote", 400, "Invalid amount"))
          ELSE /\ pc' = [pc EXCEPT ![p] = "quote_select"]
               /\ req' = [req EXCEPT ![p] =
                             [op |-> "quote", marketId |-> m, side |-> s, amountZat |-> a]]
               /\ UNCHANGED <<dbvars, loc, wr, locks>>
               /\ Silent
    /\ UNCHANGED <<envvars, now>>

QuoteRequest(p) == QuoteRequestOf(p, TradeAmounts)

\* the catch of lines 255-261
QuoteCatch(message) ==
    IF message \in {"Trade amount too small", "Insufficient liquidity"}
    THEN Response("quote", 400, message)
    ELSE Response("quote", 500, "Failed to get quote")

\* lines 238-253: the body of a successful quote
QuoteResponse(quote) ==
    [op |-> "quote", code |-> 200, error |-> "", window_end |-> {}, ids |-> {},
     quote |-> [shares |-> quote.shares, avgPrice |-> quote.avgPrice,
                newYesPrice |-> quote.yesPrice, newNoPrice |-> quote.noPrice,
                fee |-> quote.fee]]

\* faulty variant: the quote is computed with the default fee of
\* calculateSharesForAmount instead of the pool's fee_bps
QuoteSelect_DefaultFee(p) ==
    /\ pc[p] = "quote_select"
    /\ LET m == req[p].marketId
       IN  IF m \notin Markets
           THEN Rollback(p, Response("quote", 404, "Market not found"))
           ELSE IF markets[m].resolved
           THEN Rollback(p, Response("quote", 400, "Market is resolved"))
           ELSE LET quote == calculateSharesForAmount(pools[m].yes_shares,
                                 pools[m].no_shares, req[p].side, req[p].amountZat,
                                 DEFAULT_FEE_BPS)
                IN  IF ~quote.ok
                    THEN Rollback(p, QuoteCatch(quote.message))
                    ELSE Rollback(p, QuoteResponse(quote))
    /\ UNCHANGED <<envvars, now>>

\* lines 209-254: SELECT market and pool (no lock), compute the quote, respond
QuoteSelect(p) ==
    /\ pc[p] = "quote_select"
    /\ LET m == req[p].marketId
       IN  IF m \notin Markets
           THEN Rollback(p, Response("quote", 404, "Market not found"))
           ELSE IF markets[m].resolved
           THEN Rollback(p, Response("quote", 400, "Market is resolved"))
           ELSE LET quote == calculateSharesForAmount(pools[m].yes_shares,
                                 pools[m].no_shares, req[p].side, req[p].amountZat,
                                 FeeBpsOrDefault(pools[m].fee_bps))
                IN  IF ~quote.ok
                    THEN Rollback(p, QuoteCatch(quote.message))
                    ELSE Rollback(p, QuoteResponse(quote))
    /\ UNCHANGED <<envvars, now>>

NextQuote ==
    \/ NextTrade
    \/ \E p \in Procs : QuoteRequest(p) \/ QuoteSelect(p)

\* the engine service: trades and quotes on the same store
SpecQuote == InitTrade /\ [][NextQuote]_vars

(***************************************************************************)
(* The pricing engine on its own: the calls of the unit tests and of the   *)
(* routes, applied to a pool held in local variables                       *)
(***************************************************************************)
MaxSequence == 2
\* the largest side of the pools the calls start from
AmmShares == 4
\* the runner of the calls
Tester == "p1"
AmmFunctions == {"calculateTrade", "calculateSharesForAmount"}
AmmSides == 1..AmmShares
\* shares to buy, up to more than a side holds
AmmSharesToBuy == 1..(AmmShares + 1)
\* amounts in zatoshi that reach calculateSharesForAmount from the trade route
\* (anything but 0): below SCALE, whole and broken multiples of SCALE, negative
AmmAmounts == {1, SCALE, 2 * SCALE - 1, 2 * SCALE, 3 * SCALE, -(2 * PoolShares * SCALE)}
AmmFeeBps == {0, DEFAULT_FEE_BPS, HalfFeeBps}

AmmInputs(fn) == IF fn = "calculateTrade" THEN AmmSharesToBuy ELSE AmmAmounts

Evaluate(fn, yesShares, noShares, side, amount, feeBps) ==
    IF fn = "calculateTrade"
    THEN calculateTrade(yesShares, noShares, side, amount, feeBps)
    ELSE calculateSharesForAmount(yesShares, noShares, side, amount, feeBps)

\* what a call leaves in the runner's local variables
AmmCall(test, fn, side, amount, feeBps, result, other, otherAmount) ==
    [test |-> test, fn |-> fn,
     yesShares |-> pools["m1"].yes_shares, noShares |-> pools["m1"].no_shares,
     side |-> side, amount |-> amount, feeBps |-> feeBps, result |-> result,
     other |-> other, otherAmount |-> otherAmount,
     applied |-> loc[Tester].applied]

\* a test computes on the pool right after the pool has been set: at the start
\* or after a call of the trade sequence
PoolIsSet == loc[Tester].test \in {"none", "trade"}

AmmFrame ==
    UNCHANGED <<markets, balances, positions, fills, jobs, stakes, attestations,
                disputes, envvars, now, pc, req, wr, locks, res>>

\* kms.js 198-211: result = calculateTrade(...); yesShares = result.newYesShares;
\* noShares = result.newNoShares (a throw leaves the pool as it is)
AmmTrade ==
    /\ loc[Tester].applied < MaxSequence
    /\ \E side \in Sides, sharesToBuy \in AmmSharesToBuy, feeBps \in AmmFeeBps :
          LET result == calculateTrade(pools["m1"].yes_shares, pools["m1"].no_shares,
                                       side, sharesToBuy, feeBps)
              call == AmmCall("trade", "calculateTrade", side, sharesToBuy, feeBps,
                              result, result, sharesToBuy)
          IN  IF result.ok
              THEN /\ pools' = [pools EXCEPT !["m1"].yes_shares = result.newYesShares,
                                             !["m1"].no_shares = result.newNoShares]
                   /\ loc' = [loc EXCEPT ![Tester] =
                                 [call EXCEPT !.applied = @ + 1]]
              ELSE /\ loc' = [loc EXCEPT ![Tester] = call]
                   /\ UNCHANGED pools
    /\ AmmFrame

\* kms.js 304-339 and the quote route: calculateSharesForAmount on the pool
AmmQuote ==
    /\ PoolIsSet
    /\ \E side \in Sides, amountZat \in AmmAmounts, feeBps \in AmmFeeBps :
          LET result == calculateSharesForAmount(pools["m1"].yes_shares,
                            pools["m1"].no_shares, side, amountZat, feeBps)
          IN  loc' = [loc EXCEPT ![Tester] =
                        AmmCall("quote", "calculateSharesForAmount", side, amountZat,
                                feeBps, result, result, amountZat)]
    /\ UNCHANGED pools
    /\ AmmFrame

\* kms.js 260-271: a small and a large trade at the same pool state
AmmCompareSizes ==
    /\ PoolIsSet
    /\ \E fn \in AmmFunctions, side \in Sides, feeBps \in AmmFeeBps :
          \E small \in AmmInputs(fn), large \in AmmInputs(fn) :
             /\ small < large
             /\ loc' = [loc EXCEPT ![Tester] =
                          AmmCall("sizes", fn, side, small, feeBps,
                                  Evaluate(fn, pools["m1"].yes_shares,
                                           pools["m1"].no_shares, side, small, feeBps),
                                  Evaluate(fn, pools["m1"].yes_shares,
                                           pools["m1"].no_shares, side, large, feeBps),
                                  large)]
    /\ UNCHANGED pools
    /\ AmmFrame

\* kms.js 275-300: the same trade with a fee and with feeBps = 0
AmmCompareFees ==
    /\ PoolIsSet
    /\ \E fn \in AmmFunctions, side \in Sides, feeBps \in AmmFeeBps \ {0} :
          \E amount \in AmmInputs(fn) :
             loc' = [loc EXCEPT ![Tester] =
                       AmmCall("fees", fn, side, amount, feeBps,
                               Evaluate(fn, pools["m1"].yes_shares,
                                        pools["m1"].no_shares, side, amount, feeBps),
                               Evaluate(fn, pools["m1"].yes_shares,
                                        pools["m1"].no_shares, side, amount, 0),
                               amount)]
    /\ UNCHANGED pools
    /\ AmmFrame

\* kms.js 341-368: getPrices on a pool
AmmPrices ==
    /\ PoolIsSet
    /\ loc' = [loc EXCEPT ![Tester] =
                  [test |-> "prices", fn |-> "getPrices",
                   yesShares |-> pools["m1"].yes_shares,
                   noShares |-> pools["m1"].no_shares,
                   result |-> getPrices(pools["m1"].yes_shares, pools["m1"].no_shares),
                   applied |-> loc[Tester].applied]]
    /\ UNCHANGED pools
    /\ AmmFrame

InitAmm ==
    /\ pc = [p \in Procs |-> "idle"]
    /\ req = [p \in Procs |-> NoRequest]
    /\ loc = [p \in Procs |-> IF p = Tester THEN [test |-> "none", applied |-> 0]
                                             ELSE NoLocals]
    /\ wr = [p \in Procs |-> NoWrites]
    /\ locks = [p \in Procs |-> {}]
    /\ res = NoResponse
    /\ markets = [m \in Markets |-> [resolved |-> (m = "m2"),
                                      volume_zat |-> 0,
                                      yes_price |-> Ratio(1, 2),
                                      no_price |-> Ratio(1, 2)]]
    /\ \E yesShares \in AmmSides, noShares \in AmmSides :
          pools = [m \in Markets |->
                     [yes_shares |-> IF m = "m1" THEN yesShares ELSE AmmShares,
                      no_shares |-> IF m = "m1" THEN noShares ELSE AmmShares,
                      fee_bps |-> 0]]
    /\ positions = <<>>
    /\ fills = <<>>
    /\ InitEmptyOracle
    /\ jobs = <<>>
    /\ balances = [u \in Users |-> [available_zat |-> StartBalanceZat, locked_zat |-> 0]]
    /\ users = [u \in Users |-> [kyc_verified |-> FALSE]]
    /\ ALLOW_DESHIELD = FALSE
    /\ DESHIELD_KYC = FALSE
    /\ now = 0

NextAmm == AmmTrade \/ AmmQuote \/ AmmCompareSizes \/ AmmCompareFees \/ AmmPrices

SpecAmm == InitAmm /\ [][NextAmm]_vars

(***************************************************************************)
(* The clock                                                               *)
(***************************************************************************)
Tick ==
    /\ now < MaxHours * MS_PER_HOUR
    /\ now' = now + TickHours * MS_PER_HOUR
    /\ UNCHANGED <<dbvars, envvars, pc, req, loc, wr, locks>>
    /\ Silent

(***************************************************************************)
(* POST /api/jobs, POST /api/jobs/:jobId/cancel                            *)
(***************************************************************************)
\* request bodies tried: a valid and an invalid job_type, tx_type and amount_zat
SubmitJobTypes == {"payout", "refund"}
SubmitTxTypes == VALID_TX_TYPES \cup {"public"}
SubmitAmounts == {0, SCALE}
SubmitUserIds == Users \cup {NULL}
\* stake_id of the body: none, the id of a stake, an id with no row in stakes
SubmitStakeIds == {{}} \cup {{s} : s \in 1..(Len(stakes) + 1)}

\* lines 139-162: the privacy gate; the KYC lookup is commented out (TODO)
PrivacyGate(tx_type, user_id) ==
    IF tx_type # "shielded" /\ ~ALLOW_DESHIELD
    THEN "Transparent/deshield transactions are not allowed"
    ELSE IF tx_type # "shielded" /\ ~DESHIELD_KYC
    THEN "Deshield transactions require KYC verification"
    ELSE "pass"

\* lines 106-193: validate, privacy gate, INSERT INTO settlement_jobs, respond
\* (stake_id REFERENCES stakes(id): an id without a row makes the INSERT throw;
\* the bodies tried carry no fill_id and no market_id)
SubmitJob(p) ==
    /\ pc[p] = "idle"
    /\ Len(jobs) < MaxJobs
    /\ \E job_type \in SubmitJobTypes, amount_zat \in SubmitAmounts,
          tx_type \in SubmitTxTypes, user_id \in SubmitUserIds,
          stake_id \in SubmitStakeIds :
          IF job_type \notin VALID_JOB_TYPES
          THEN Rollback(p, Response("submit", 400, "Invalid job_type"))
          ELSE IF amount_zat <= 0
          THEN Rollback(p, Response("submit", 400, "Invalid amount_zat"))
          ELSE IF tx_type \notin VALID_TX_TYPES
          THEN Rollback(p, Response("submit", 400, "Invalid tx_type"))
          ELSE IF PrivacyGate(tx_type, user_id) # "pass"
          THEN Rollback(p, Response("submit", 422, PrivacyGate(tx_type, user_id)))
          ELSE IF ~(stake_id \subseteq 1..Len(stakes))
          THEN Rollback(p, Response("submit", 500, "Failed to create settlement job"))
          ELSE /\ jobs' = Append(jobs, JobRow(job_type, NULL, stake_id, NULL, user_id,
                                              amount_zat, tx_type))
               /\ Finish(p, Response("submit", 201, ""))
               /\ UNCHANGED <<pools, markets, balances, positions, fills,
                              stakes, attestations, disputes>>
    /\ UNCHANGED <<envvars, now>>

\* faulty variant: the UPDATE of cancel without "AND status = 'pending'"
CancelUpdate_AnyStatus(p) ==
    /\ pc[p] = "idle"
    /\ \E jobId \in 1..(Len(jobs) + 1) :
          IF jobId \in 1..Len(jobs)
          THEN /\ jobs' = [jobs EXCEPT ![jobId].status = "cancelled"]
               /\ Finish(p, Response("cancel", 200, ""))
          ELSE /\ pc' = [pc EXCEPT ![p] = "cancel_check_exists"]
               /\ req' = [req EXCEPT ![p] = [op |-> "cancel", jobId |-> jobId]]
               /\ UNCHANGED <<jobs, loc, wr, locks>>
               /\ Silent
    /\ UNCHANGED <<pools, markets, balances, positions, fills, stakes, attestations, disputes>>
    /\ UNCHANGED <<envvars, now>>

\* lines 238-246: UPDATE settlement_jobs SET status = 'cancelled' ...
\*                WHERE id = $1 AND status = 'pending' RETURNING *
CancelUpdate(p) ==
    /\ pc[p] = "idle"
    /\ \E jobId \in 1..(Len(jobs) + 1) :
          IF jobId \in 1..Len(jobs) /\ jobs[jobId].status = "pending"
          THEN /\ jobs' = [jobs EXCEPT ![jobId].status = "cancelled"]
               /\ Finish(p, Response("cancel", 200, ""))
          ELSE /\ pc' = [pc EXCEPT ![p] = "cancel_check_exists"]
               /\ req' = [req EXCEPT ![p] = [op |-> "cancel", jobId |-> jobId]]
               /\ UNCHANGED <<jobs, loc, wr, locks>>
               /\ Silent
    /\ UNCHANGED <<pools, markets, balances, positions, fills, stakes, attestations, disputes>>
    /\ UNCHANGED <<envvars, now>>

\* faulty variant: a job that the UPDATE did not match is cancelled all the same
CancelCheckExists_Force(p) ==
    /\ pc[p] = "cancel_check_exists"
    /\ IF req[p].jobId \notin 1..Len(jobs)
       THEN Rollback(p, Response("cancel", 404, "Job not found"))
       ELSE /\ jobs' = [jobs EXCEPT ![req[p].jobId].status = "cancelled"]
            /\ Finish(p, Response("cancel", 200, ""))
            /\ UNCHANGED <<pools, markets, balances, positions, fills,
                           stakes, attestations, disputes>>
    /\ UNCHANGED <<envvars, now>>

\* lines 248-263: no row was updated: SELECT status, respond 404 or 400
CancelCheckExists(p) ==
    /\ pc[p] = "cancel_check_exists"
    /\ IF req[p].jobId \notin 1..Len(jobs)
       THEN Rollback(p, Response("cancel", 404, "Job not found"))
       ELSE Rollback(p, Response("cancel", 400, "Job cannot be cancelled"))
    /\ UNCHANGED <<envvars, now>>

InitSettlement ==
    /\ InitProcs
    /\ InitMarkets({DEFAULT_FEE_BPS})
    /\ InitEmptyOracle
    /\ jobs = <<>>
    /\ balances = [u \in Users |-> [available_zat |-> StartBalanceZat, locked_zat |-> 0]]
    /\ users = [u \in Users |-> [kyc_verified |-> (u = "u1")]]
    /\ ALLOW_DESHIELD \in BOOLEAN
    /\ DESHIELD_KYC \in BOOLEAN
    /\ now = 0

NextSettlement ==
    \E p \in Procs :
        \/ SubmitJob(p)
        \/ CancelUpdate(p)
        \/ CancelCheckExists(p)

SpecSettlement == InitSettlement /\ [][NextSettlement]_vars

\* a request handler that has started runs to its response; nothing else is
\* scheduled: the service starts no loop that reads settlement_jobs
FairSettlement ==
    /\ SpecSettlement
    /\ \A p \in Procs : WF_vars(CancelCheckExists(p))

(***************************************************************************)
(* Oracle service: POST /api/reporters                                     *)
(***************************************************************************)
\* request bodies tried
RegisterUserIds == Users
RegisterAmounts == {MIN_STAKE_ZAT - 1, MIN_STAKE_ZAT}
AttestMarketIds == Markets
VALID_OUTCOMES == {"yes", "no", "invalid"}
AttestOutcomes == {"yes"}
ListMarketIds == {"m1"}
DisputedOutcomes == {"no", "maybe"}
Resolutions == {"reporter_wins", "disputer_wins", "escalate"}
ResolutionInputs == Resolutions

\* request handlers that are at one of the given statements
InFlight(labels) == Cardinality({q \in Procs : pc[q] \in labels})

\* stakes of a user in one of the given statuses (stake_type is always 'reporter')
StakesOf(user_id, statuses) ==
    {s \in 1..Len(stakes) : stakes[s].user_id = user_id /\ stakes[s].status \in statuses}

\* faulty variant: the balance row is read without FOR UPDATE
RegisterBegin_NoLock(p) ==
    /\ pc[p] = "idle"
    /\ Len(stakes) + InFlight({"register_write"}) < MaxStakes
    /\ \E u \in RegisterUserIds, amount \in RegisterAmounts :
          IF amount < MIN_STAKE_ZAT
          THEN Rollback(p, Response("register", 400, "Insufficient stake"))
          ELSE IF u \notin DOMAIN users
          THEN Rollback(p, Response("register", 404, "User not found"))
          ELSE IF balances[u].available_zat < amount
          THEN Rollback(p, Response("register", 400, "Insufficient balance"))
          ELSE IF StakesOf(u, {"active"}) # {}
          THEN Rollback(p, Response("register", 400, "Already registered as reporter"))
          ELSE /\ req' = [req EXCEPT ![p] = [op |-> "register", user_id |-> u,
                                             stake_amount_zat |-> amount]]
               /\ Goto(p, "register_write")
               /\ UNCHANGED <<dbvars, loc, wr, locks>>
               /\ Silent
    /\ UNCHANGED <<envvars, now>>

\* lines 20-70: validate, BEGIN, user, SELECT balances FOR UPDATE, existing stake
RegisterBegin(p) ==
    /\ pc[p] = "idle"
    /\ Len(stakes) + InFlight({"register_write"}) < MaxStakes
    /\ \E u \in RegisterUserIds, amount \in RegisterAmounts :
          IF amount < MIN_STAKE_ZAT
          THEN Rollback(p, Response("register", 400, "Insufficient stake"))
          ELSE IF u \notin DOMAIN users
          THEN Rollback(p, Response("register", 404, "User not found"))
          ELSE /\ CanLock(p, <<"balances", u>>)
               /\ IF balances[u].available_zat < amount
                  THEN Rollback(p, Response("register", 400, "Insufficient balance"))
                  ELSE IF StakesOf(u, {"active"}) # {}
                  THEN Rollback(p, Response("register", 400, "Already registered as reporter"))
                  ELSE /\ locks' = [locks EXCEPT ![p] = @ \cup {<<"balances", u>>}]
                       /\ req' = [req EXCEPT ![p] = [op |-> "register", user_id |-> u,
                                                     stake_amount_zat |-> amount]]
                       /\ Goto(p, "register_write")
                       /\ UNCHANGED <<dbvars, loc, wr>>
                       /\ Silent
    /\ UNCHANGED <<envvars, now>>

\* lines 72-102: UPDATE balances, INSERT INTO stakes, COMMIT, respond
RegisterWrite(p) ==
    /\ pc[p] = "register_write"
    /\ LET u == req[p].user_id
           amount == req[p].stake_amount_zat
       IN  /\ balances' = [balances EXCEPT ![u].available_zat = @ - amount,
                                           ![u].locked_zat = @ + amount]
           /\ stakes' = Append(stakes, [user_id |-> u, amount_zat |-> amount,
                                        status |-> "active"])
    /\ Finish(p, Response("register", 201, ""))
    /\ UNCHANGED <<pools, markets, positions, fills, jobs, attestations, disputes>>
    /\ UNCHANGED <<envvars, now>>

\* balances a user may hold when asking to register: below, at and above
\* the minimum stake
RegisterBalances == {MIN_STAKE_ZAT - 1, MIN_STAKE_ZAT, 2 * MIN_STAKE_ZAT}

InitRegister ==
    /\ InitProcs
    /\ InitMarkets({DEFAULT_FEE_BPS})
    /\ InitEmptyOracle
    /\ jobs = <<>>
    /\ \E available \in [Users -> RegisterBalances] :
          balances = [u \in Users |-> [available_zat |-> available[u], locked_zat |-> 0]]
    /\ users = [u \in Users |-> [kyc_verified |-> FALSE]]
    /\ ALLOW_DESHIELD = FALSE
    /\ DESHIELD_KYC = FALSE
    /\ now = 0

NextRegister ==
    \E p \in Procs :
        \/ RegisterBegin(p)
        \/ RegisterWrite(p)

\* concurrent POST /api/reporters requests alone
SpecRegister == InitRegister /\ [][NextRegister]_vars

\* a balance that covers one stake and one trade, not two of either
TraderBalanceZat == MIN_STAKE_ZAT + 2 * SCALE

\* the engine and the oracle service on the same database: users who trade and
\* register as reporters at the same time
InitBalance ==
    /\ InitProcs
    /\ InitMarkets({DEFAULT_FEE_BPS})
    /\ InitEmptyOracle
    /\ jobs = <<>>
    /\ balances = [u \in Users |-> [available_zat |-> TraderBalanceZat, locked_zat |-> 0]]
    /\ users = [u \in Users |-> [kyc_verified |-> FALSE]]
    /\ ALLOW_DESHIELD = FALSE
    /\ DESHIELD_KYC = FALSE
    /\ now = 0

NextBalance ==
    \/ NextTrade
    \/ \E p \in Procs : RegisterBegin(p) \/ RegisterWrite(p)

SpecBalance == InitBalance /\ [][NextBalance]_vars

\* amounts that buy different numbers of shares at different prices
PositionAmounts == {SCALE + 1, 3 * SCALE}

TradeRequestPosition(p) == TradeRequestOf(p, PositionAmounts)

\* users who can pay for several trades build up positions
NextPositions ==
    \E p \in Procs :
        \/ TradeRequestPosition(p)
        \/ TradeSelectMarket(p)
        \/ TradeSelectBalance(p)
        \/ TradeCalculate(p)
        \/ TradeUpdatePool(p)
        \/ TradeUpdateMarket(p)
        \/ TradeUpdateBalance(p)
        \/ TradeUpsertPosition(p)
        \/ TradeInsertFill(p)
        \/ TradeInsertJob(p)
        \/ TradeCommit(p)
        \/ TradeError(p)

SpecPositions == InitBalance /\ [][NextPositions]_vars

\* the smallest amount on which the default fee rate takes a fee
FeeAmounts == {(BPS_DENOMINATOR \div DEFAULT_FEE_BPS + 1) * SCALE}

TradeRequestFee(p) == TradeRequestOf(p, FeeAmounts)
QuoteRequestFee(p) == QuoteRequestOf(p, FeeAmounts)

\* pools configured with fee_bps 0 and with a fee, users who can pay the amount
InitFee ==
    /\ InitProcs
    /\ InitMarkets(FeeBpsValues)
    /\ InitEmptyOracle
    /\ jobs = <<>>
    /\ balances = [u \in Users |-> [available_zat |-> TraderBalanceZat, locked_zat |-> 0]]
    /\ users = [u \in Users |-> [kyc_verified |-> FALSE]]
    /\ ALLOW_DESHIELD = FALSE
    /\ DESHIELD_KYC = FALSE
    /\ now = 0

NextFee ==
    \E p \in Procs :
        \/ TradeRequestFee(p)
        \/ TradeSelectMarket(p)
        \/ TradeSelectBalance(p)
        \/ TradeCalculate(p)
        \/ TradeUpdatePool(p)
        \/ TradeUpdateMarket(p)
        \/ TradeUpdateBalance(p)
        \/ TradeUpsertPosition(p)
        \/ TradeInsertFill(p)
        \/ TradeInsertJob(p)
        \/ TradeCommit(p)
        \/ TradeError(p)
        \/ QuoteRequestFee(p)
        \/ QuoteSelect(p)

SpecFee == InitFee /\ [][NextFee]_vars

\* callers that register reporters and submit settlement jobs for the stakes
NextSubmit ==
    \E p \in Procs :
        \/ RegisterBegin(p)
        \/ RegisterWrite(p)
        \/ SubmitJob(p)

SpecSubmit == InitRegister /\ [][NextSubmit]_vars

(***************************************************************************)
(* Oracle service: POST /api/attestations, GET /api/attestations/market/:id *)
(***************************************************************************)
\* Date.now() + DISPUTE_WINDOW_HOURS * 60 * 60 * 1000
WindowFromNow == now + DISPUTE_WINDOW_HOURS * MS_PER_HOUR

\* lines 29-70: validate; the reporter has an active stake; the market is open
AttestCheckStake(p) ==
    /\ pc[p] = "idle"
    /\ Len(attestations) + InFlight({"attest_check_existing", "attest_insert"})
          < MaxAttestations
    /\ \E u \in Users, m \in AttestMarketIds, o \in AttestOutcomes :
          IF o \notin VALID_OUTCOMES
          THEN Rollback(p, Response("attest", 400, "Invalid outcome"))
          ELSE IF StakesOf(u, {"active"}) = {}
          THEN Rollback(p, Response("attest", 403, "Not authorized"))
          ELSE IF m \notin Markets
          THEN Rollback(p, Response("attest", 404, "Market not found"))
          ELSE IF markets[m].resolved
          THEN Rollback(p, Response("attest", 400, "Market already resolved"))
          ELSE /\ req' = [req EXCEPT ![p] = [op |-> "attest", reporter_id |-> u,
                                             market_id |-> m]]
               /\ Goto(p, "attest_check_existing")
               /\ UNCHANGED <<dbvars, loc, wr, locks>>
               /\ Silent
    /\ UNCHANGED <<envvars, now>>

\* lines 72-80: SELECT the reporter's attestations for this market
AttestCheckExisting(p) ==
    /\ pc[p] = "attest_check_existing"
    /\ IF \E a \in 1..Len(attestations) :
             /\ attestations[a].reporter_id = req[p].reporter_id
             /\ attestations[a].market_id = req[p].market_id
       THEN Rollback(p, Response("attest", 400, "Already attested for this market"))
       ELSE /\ Goto(p, "attest_insert")
            /\ UNCHANGED <<dbvars, req, loc, wr, locks>>
            /\ Silent
    /\ UNCHANGED <<envvars, now>>

\* lines 82-113: INSERT INTO oracle_attestations (created_at defaults to NOW()),
\* respond with dispute_window_end taken from the clock
AttestInsert(p) ==
    /\ pc[p] = "attest_insert"
    /\ attestations' = Append(attestations, [market_id |-> req[p].market_id,
                                             reporter_id |-> req[p].reporter_id,
                                             status |-> "pending",
                                             created_at |-> now])
    /\ Finish(p, [Response("attest", 201, "") EXCEPT
                      !.window_end = {WindowFromNow},
                      !.ids = {Len(attestations) + 1}])
    /\ UNCHANGED <<pools, markets, balances, positions, fills, jobs, stakes, disputes>>
    /\ UNCHANGED <<envvars, now>>

\* part_005 lines 124-155: every listed attestation carries the same
\* dispute_window_end, taken from the clock at the time of the request
ListAttestations(p) ==
    /\ pc[p] = "idle"
    /\ \E m \in ListMarketIds :
          LET rows == {a \in 1..Len(attestations) : attestations[a].market_id = m}
          IN  Rollback(p, [Response("list", 200, "") EXCEPT
                               !.window_end = IF rows = {} THEN {} ELSE {WindowFromNow},
                               !.ids = rows])
    /\ UNCHANGED <<envvars, now>>

(***************************************************************************)
(* Oracle service: POST /api/disputes                                      *)
(***************************************************************************)
DisputeLabels == {"dispute_select_stake", "dispute_update_stake"}

\* faulty variant: the deadline recomputed from the clock, as the attestation routes do
windowEnd_FromNow(attestation) == now + DISPUTE_WINDOW_HOURS * MS_PER_HOUR

\* lines 67-68: attestationTime + DISPUTE_WINDOW_HOURS * 60 * 60 * 1000
windowEnd(attestation) == attestation.created_at + DISPUTE_WINDOW_HOURS * MS_PER_HOUR

\* lines 20-76: validate, BEGIN, SELECT the attestation, status and window checks
DisputeSelectAttestation(p) ==
    /\ pc[p] = "idle"
    /\ Len(disputes) + InFlight(DisputeLabels) < MaxDisputes
    /\ \E a \in 1..(Len(attestations) + 1), u \in Users, o \in DisputedOutcomes :
          LET about(code, error) == [Response("dispute", code, error) EXCEPT !.ids = {a}]
          IN  IF o \notin VALID_OUTCOMES
              THEN Rollback(p, about(400, "Invalid disputed_outcome"))
              ELSE IF a \notin 1..Len(attestations)
              THEN Rollback(p, about(404, "Attestation not found"))
              ELSE IF attestations[a].status = "disputed"
              THEN Rollback(p, about(400, "Attestation already disputed"))
              ELSE IF now > windowEnd(attestations[a])
              THEN Rollback(p, [about(400, "Dispute window closed") EXCEPT
                                    !.window_end = {windowEnd(attestations[a])}])
              ELSE /\ req' = [req EXCEPT ![p] = [op |-> "dispute", attestation_id |-> a,
                                                 disputer_id |-> u]]
                   /\ loc' = [loc EXCEPT ![p] = [windowEnd |-> windowEnd(attestations[a])]]
                   /\ Goto(p, "dispute_select_stake")
                   /\ UNCHANGED <<dbvars, wr, locks>>
                   /\ Silent
    /\ UNCHANGED <<envvars, now>>

\* lines 78-92: SELECT the disputer's active stakes, take rows[0]
DisputeSelectStake(p) ==
    /\ pc[p] = "dispute_select_stake"
    /\ LET rows == StakesOf(req[p].disputer_id, {"active"})
       IN  IF rows = {}
           THEN Rollback(p, [Response("dispute", 400, "Disputer must have active stake")
                                EXCEPT !.ids = {req[p].attestation_id}])
           ELSE /\ \E s \in rows :
                      loc' = [loc EXCEPT ![p] = [windowEnd |-> loc[p].windowEnd, stake |-> s]]
                /\ Goto(p, "dispute_update_stake")
                /\ UNCHANGED <<dbvars, req, wr, locks>>
                /\ Silent
    /\ UNCHANGED <<envvars, now>>

\* the row an UPDATE of an open transaction starts from
TxStake(p, s) == IF s \in DOMAIN wr[p].stakes THEN wr[p].stakes[s] ELSE stakes[s]

\* lines 94-138: UPDATE stakes SET status = 'locked' WHERE id = stake.id (waits
\* for the row lock); INSERT INTO disputes with dispute_window_end = windowEnd;
\* UPDATE oracle_attestations SET status = 'disputed'; COMMIT; respond.
\* No transaction keeps an attestation row locked while it waits, so the
\* statements after the stake UPDATE never wait.
DisputeWrite(p) ==
    /\ pc[p] = "dispute_update_stake"
    /\ LET s == loc[p].stake
           a == req[p].attestation_id
       IN  /\ CanLock(p, <<"stakes", s>>)
           /\ CanLock(p, <<"oracle_attestations", a>>)
           /\ CommitWrites([wr[p] EXCEPT
                  !.stakes = s :> [TxStake(p, s) EXCEPT !.status = "locked"],
                  !.newDisputes = <<[attestation_id |-> a,
                                     disputer_id |-> req[p].disputer_id,
                                     disputer_stake_id |-> s,
                                     dispute_window_end |-> loc[p].windowEnd,
                                     status |-> "open",
                                     reporter_slashed |-> FALSE,
                                     disputer_slashed |-> FALSE]>>,
                  !.attestations = a :> [attestations[a] EXCEPT !.status = "disputed"]])
           /\ Finish(p, [Response("dispute", 201, "") EXCEPT
                             !.window_end = {loc[p].windowEnd}, !.ids = {a}])
    /\ UNCHANGED <<envvars, now>>

(***************************************************************************)
(* Oracle service: POST /api/disputes/:disputeId/resolve                   *)
(***************************************************************************)
\* lines 237-243, 256-257, 291: the new status and the slashed flags
Resolved(dispute, resolution) ==
    [dispute EXCEPT
        !.status = CASE resolution = "reporter_wins" -> "resolved_for_reporter"
                     [] resolution = "disputer_wins" -> "resolved_for_disputer"
                     [] OTHER -> "escalated",
        !.reporter_slashed = (resolution = "disputer_wins"),
        !.disputer_slashed = (resolution = "reporter_wins")]

\* lines 295-318: UPDATE disputes SET status, reporter_slashed, disputer_slashed;
\* COMMIT; respond. w holds the writes of the transaction so far.
ResolveCommit(p, d, resolution, w) ==
    /\ CommitWrites([w EXCEPT !.disputes = d :> Resolved(disputes[d], resolution)])
    /\ Finish(p, [Response("resolve", 200, "") EXCEPT !.ids = {d}])

\* faulty variant: escalate also returns the disputer's stake to active
ResolveBranch_EscalateUnlocks(p, d, resolution) ==
    LET request == [op |-> "resolve", disputeId |-> d, resolution |-> resolution]
        reporter_id == attestations[disputes[d].attestation_id].reporter_id
        rows == StakesOf(reporter_id, {"active", "locked"})
        locals == [dispute |-> disputes[d], reporter_id |-> reporter_id]
        s == disputes[d].disputer_stake_id
    IN  IF resolution = "escalate"
        THEN ResolveCommit(p, d, resolution,
                 [wr[p] EXCEPT !.stakes = s :> [stakes[s] EXCEPT !.status = "active"]])
        ELSE /\ req' = [req EXCEPT ![p] = request]
             /\ IF resolution = "reporter_wins"
                THEN /\ loc' = [loc EXCEPT ![p] = locals]
                     /\ Goto(p, "resolve_slash_disputer")
                ELSE IF rows = {}
                THEN /\ loc' = [loc EXCEPT ![p] = locals]
                     /\ Goto(p, "resolve_return_disputer")
                ELSE /\ \E r \in rows :
                           loc' = [loc EXCEPT ![p] =
                                      [dispute |-> disputes[d], reporter_id |-> reporter_id,
                                       reporterStake |-> r]]
                     /\ Goto(p, "resolve_slash_reporter")
             /\ UNCHANGED <<dbvars, wr>>
             /\ Silent

\* what ResolveSelect does once the dispute row is read and found open:
\* escalate (lines 290-304) commits at once; reporter_wins goes on to slash the
\* disputer's stake; disputer_wins (lines 259-266) reads the reporter's stakes
\* WHERE status IN ('active', 'locked') and takes rows[0] of the unordered result
ResolveBranch(p, d, resolution) ==
    LET request == [op |-> "resolve", disputeId |-> d, resolution |-> resolution]
        reporter_id == attestations[disputes[d].attestation_id].reporter_id
        rows == StakesOf(reporter_id, {"active", "locked"})
        locals == [dispute |-> disputes[d], reporter_id |-> reporter_id]
    IN  IF resolution = "escalate"
        THEN ResolveCommit(p, d, resolution, wr[p])
        ELSE /\ req' = [req EXCEPT ![p] = request]
             /\ IF resolution = "reporter_wins"
                THEN /\ loc' = [loc EXCEPT ![p] = locals]
                     /\ Goto(p, "resolve_slash_disputer")
                ELSE IF rows = {}
                THEN /\ loc' = [loc EXCEPT ![p] = locals]
                     /\ Goto(p, "resolve_return_disputer")
                ELSE /\ \E s \in rows :
                           loc' = [loc EXCEPT ![p] =
                                      [dispute |-> disputes[d], reporter_id |-> reporter_id,
                                       reporterStake |-> s]]
                     /\ Goto(p, "resolve_slash_reporter")
             /\ UNCHANGED <<dbvars, wr>>
             /\ Silent

\* faulty variant: the dispute row is read without FOR UPDATE
ResolveSelect_NoLock(p) ==
    /\ pc[p] = "idle"
    /\ \E d \in 1..(Len(disputes) + 1), resolution \in ResolutionInputs :
          IF resolution \notin Resolutions
          THEN Rollback(p, Response("resolve", 400, "Invalid resolution"))
          ELSE IF d \notin 1..Len(disputes)
          THEN Rollback(p, Response("resolve", 404, "Dispute not found"))
          ELSE IF disputes[d].status # "open"
          THEN Rollback(p, Response("resolve", 400, "Dispute already resolved"))
          ELSE /\ ResolveBranch(p, d, resolution)
               /\ resolution # "escalate" => UNCHANGED locks
    /\ UNCHANGED <<envvars, now>>

\* lines 200-239: validate, BEGIN, SELECT d.*, a.reporter_id ... FOR UPDATE OF d
\* (waits for the row lock), reject unless the dispute is open
ResolveSelect(p) ==
    /\ pc[p] = "idle"
    /\ \E d \in 1..(Len(disputes) + 1), resolution \in ResolutionInputs :
          IF resolution \notin Resolutions
          THEN Rollback(p, Response("resolve", 400, "Invalid resolution"))
          ELSE IF d \notin 1..Len(disputes)
          THEN Rollback(p, Response("resolve", 404, "Dispute not found"))
          ELSE /\ CanLock(p, <<"disputes", d>>)
               /\ IF disputes[d].status # "open"
                  THEN Rollback(p, Response("resolve", 400, "Dispute already resolved"))
                  ELSE /\ ResolveBranch(p, d, resolution)
                       /\ resolution # "escalate" =>
                              locks' = [locks EXCEPT ![p] = @ \cup {<<"disputes", d>>}]
    /\ UNCHANGED <<envvars, now>>

\* lines 241-254, reporter_wins: UPDATE stakes SET status = 'slashed'
\* WHERE id = dispute.disputer_stake_id (waits for the row lock); no settlement
\* job is created (TODO); then lines 295-318
ResolveSlashDisputer(p) ==
    /\ pc[p] = "resolve_slash_disputer"
    /\ LET s == loc[p].dispute.disputer_stake_id
       IN  /\ CanLock(p, <<"stakes", s>>)
           /\ ResolveCommit(p, req[p].disputeId, req[p].resolution,
                  [wr[p] EXCEPT !.stakes = s :> [TxStake(p, s) EXCEPT !.status = "slashed"]])
    /\ UNCHANGED <<envvars, now>>

\* lines 266-273, disputer_wins: UPDATE stakes SET status = 'slashed'
\* WHERE id = rows[0].id (waits for the row lock)
ResolveSlashReporter(p) ==
    /\ pc[p] = "resolve_slash_reporter"
    /\ LET s == loc[p].reporterStake
       IN  /\ CanLock(p, <<"stakes", s>>)
           /\ locks' = [locks EXCEPT ![p] = @ \cup {<<"stakes", s>>}]
           /\ wr' = [wr EXCEPT ![p].stakes = s :> [TxStake(p, s) EXCEPT !.status = "slashed"]]
    /\ Goto(p, "resolve_return_disputer")
    /\ UNCHANGED <<dbvars, envvars, now, req, loc>>
    /\ Silent

\* lines 275-289: UPDATE stakes SET status = 'active' WHERE id =
\* dispute.disputer_stake_id (waits for the row lock); UPDATE oracle_attestations
\* SET status = 'rejected'; no settlement job is created (TODO); then lines 295-318
ResolveReturnDisputer(p) ==
    /\ pc[p] = "resolve_return_disputer"
    /\ LET s == loc[p].dispute.disputer_stake_id
           a == loc[p].dispute.attestation_id
       IN  /\ CanLock(p, <<"stakes", s>>)
           /\ CanLock(p, <<"oracle_attestations", a>>)
           /\ ResolveCommit(p, req[p].disputeId, req[p].resolution,
                  [wr[p] EXCEPT
                      !.stakes = (s :> [TxStake(p, s) EXCEPT !.status = "active"]) @@ @,
                      !.attestations = a :> [attestations[a] EXCEPT !.status = "rejected"]])
    /\ UNCHANGED <<envvars, now>>

\* the row lock the next statement of a handler waits for
Wants(p) ==
    CASE pc[p] = "dispute_update_stake" -> <<"stakes", loc[p].stake>>
      [] pc[p] = "resolve_slash_disputer" -> <<"stakes", loc[p].dispute.disputer_stake_id>>
      [] pc[p] = "resolve_slash_reporter" -> <<"stakes", loc[p].reporterStake>>
      [] pc[p] = "resolve_return_disputer" -> <<"stakes", loc[p].dispute.disputer_stake_id>>
      [] OTHER -> <<>>

\* two transactions wait for each other's row locks: the database aborts one,
\* its query throws, the catch block (lines 319-322) rolls back and answers 500
DeadlockAbort(p) ==
    /\ \E q \in Procs \ {p} : Wants(p) \in locks[q] /\ Wants(q) \in locks[p]
    /\ Rollback(p, Response(req[p].op, 500, "Failed to resolve dispute"))
    /\ UNCHANGED <<envvars, now>>

StakeBalanceZat == 2 * MIN_STAKE_ZAT

InitOracle ==
    /\ InitProcs
    /\ InitMarkets({DEFAULT_FEE_BPS})
    /\ InitEmptyOracle
    /\ jobs = <<>>
    /\ balances = [u \in Users |-> [available_zat |-> StakeBalanceZat, locked_zat |-> 0]]
    /\ users = [u \in Users |-> [kyc_verified |-> FALSE]]
    /\ ALLOW_DESHIELD = FALSE
    /\ DESHIELD_KYC = FALSE
    /\ now = 0

NextOracle ==
    \/ Tick
    \/ \E p \in Procs :
          \/ RegisterBegin(p)
          \/ RegisterWrite(p)
          \/ AttestCheckStake(p)
          \/ AttestCheckExisting(p)
          \/ AttestInsert(p)
          \/ ListAttestations(p)
          \/ DisputeSelectAttestation(p)
          \/ DisputeSelectStake(p)
          \/ DisputeWrite(p)
          \/ ResolveSelect(p)
          \/ ResolveSlashDisputer(p)
          \/ ResolveSlashReporter(p)
          \/ ResolveReturnDisputer(p)
          \/ DeadlockAbort(p)

SpecOracle == InitOracle /\ [][NextOracle]_vars

\* reporters registering, attesting and reading attestations while the clock
\* runs; no dispute is ever filed
NextAttest ==
    \/ Tick
    \/ \E p \in Procs :
          \/ RegisterBegin(p)
          \/ RegisterWrite(p)
          \/ AttestCheckStake(p)
          \/ AttestCheckExisting(p)
          \/ AttestInsert(p)
          \/ ListAttestations(p)

SpecAttest == InitOracle /\ [][NextAttest]_vars

\* the clock advances and a request handler that has started runs to its
\* response; the service schedules nothing else: it starts no timer or loop
\* that reads oracle_attestations
FairAttest ==
    /\ SpecAttest
    /\ WF_vars(Tick)
    /\ \A p \in Procs :
          /\ WF_vars(RegisterWrite(p))
          /\ WF_vars(AttestCheckExisting(p))
          /\ WF_vars(AttestInsert(p))

(***************************************************************************)
(* Claims on the pricing engine and the trade transaction                  *)
(***************************************************************************)
PoolProduct(m) == pools[m].yes_shares * pools[m].no_shares

\* C1: every trade applied by the trade route leaves the pool product
\* new_yes_shares * new_no_shares at or above the product before the trade.
C1_ProductNeverDecreases ==
    [][\A m \in Markets : PoolProduct(m)' >= PoolProduct(m)]_vars

SumSeq(s) ==
    LET sum[i \in 0..Len(s)] == IF i = 0 THEN 0 ELSE sum[i - 1] + s[i]
    IN  sum[Len(s)]

\* sum of Val over the committed fills that satisfy Keep
FillTotal(Keep(_), Val(_)) ==
    SumSeq([i \in 1..Len(fills) |-> IF Keep(fills[i]) THEN Val(fills[i]) ELSE 0])

\* the pool of market m obtained by pricing the committed fills, in order,
\* from the seeded pool
PoolFromFills(m) ==
    LET after[i \in 0..Len(fills)] ==
            IF i = 0 THEN [yes_shares |-> PoolShares, no_shares |-> PoolShares, ok |-> TRUE]
            ELSE IF fills[i].market_id # m THEN after[i - 1]
            ELSE LET t == calculateSharesForAmount(after[i - 1].yes_shares,
                              after[i - 1].no_shares, fills[i].side, fills[i].amount_zat,
                              FeeBpsOrDefault(pools[m].fee_bps))
                 IN  IF after[i - 1].ok /\ t.ok /\ t.shares = fills[i].quantity
                     THEN [yes_shares |-> t.newYesShares, no_shares |-> t.newNoShares,
                           ok |-> TRUE]
                     ELSE [yes_shares |-> 0, no_shares |-> 0, ok |-> FALSE]
    IN  after[Len(fills)]

FillKeys == {<<fills[i].user_id, fills[i].market_id, fills[i].side>> : i \in 1..Len(fills)}

\* C2: the committed store never shows a strict subset of a trade's effects:
\* the pool, the market volume, the balances, the positions, the fills and the
\* trade_settlement jobs always describe the same set of trades.
C2_TradeEffectsAllOrNone ==
    /\ \A m \in Markets :
          /\ PoolFromFills(m).ok
          /\ pools[m].yes_shares = PoolFromFills(m).yes_shares
          /\ pools[m].no_shares = PoolFromFills(m).no_shares
          /\ markets[m].volume_zat =
                 FillTotal(LAMBDA f : f.market_id = m, LAMBDA f : f.amount_zat)
          /\ (\E i \in 1..Len(fills) : fills[i].market_id = m) =>
                 /\ markets[m].yes_price =
                        Ratio(pools[m].no_shares, pools[m].yes_shares + pools[m].no_shares)
                 /\ markets[m].no_price =
                        Ratio(pools[m].yes_shares, pools[m].yes_shares + pools[m].no_shares)
    /\ \A u \in Users :
          balances[u].available_zat =
              StartBalanceZat - FillTotal(LAMBDA f : f.user_id = u, LAMBDA f : f.amount_zat)
    /\ DOMAIN positions = FillKeys
    /\ \A key \in DOMAIN positions :
          LET Mine(f) == <<f.user_id, f.market_id, f.side>> = key
          IN  /\ positions[key].shares = FillTotal(Mine, LAMBDA f : f.quantity)
              /\ positions[key].cost_basis_zat = FillTotal(Mine, LAMBDA f : f.amount_zat)
    /\ Len(jobs) = Len(fills)
    /\ \A i \in 1..Len(jobs) :
          /\ jobs[i].job_type = "trade_settlement"
          /\ jobs[i].fill_id = i
          /\ jobs[i].user_id = fills[i].user_id
          /\ jobs[i].market_id = fills[i].market_id
          /\ jobs[i].amount_zat = fills[i].amount_zat

\* C2 witness: trades have committed and a later trade request was rolled back
\* after an error
C2_Witness ==
    /\ Len(fills) = MaxFills
    /\ res.op = "trade"
    /\ res.code = 500

(***************************************************************************)
(* Claims on the settlement jobs                                           *)
(***************************************************************************)
\* C3: every persisted job whose tx_type is not shielded was submitted with
\* ALLOW_DESHIELD and DESHIELD_KYC set and for a KYC-verified user.
C3_NonShieldedNeedsFlagsAndKyc ==
    \A i \in 1..Len(jobs) :
        jobs[i].tx_type # "shielded" =>
            /\ ALLOW_DESHIELD
            /\ DESHIELD_KYC
            /\ jobs[i].user_id \in Users
            /\ users[jobs[i].user_id].kyc_verified

JobTransitions ==
    {<<"pending", "processing">>, <<"processing", "submitted">>,
     <<"submitted", "confirmed">>, <<"pending", "cancelled">>,
     <<"processing", "failed">>, <<"submitted", "failed">>, <<"failed", "pending">>}

\* the jobs whose status changes in a step
JobsMoved == {i \in 1..Len(jobs) : jobs'[i].status # jobs[i].status}

JobTerminal(job) ==
    \/ job.status \in {"confirmed", "cancelled"}
    \/ job.status = "failed" /\ job.retry_count >= job.max_retries

\* C5: every persisted settlement job eventually reaches a terminal state.
C5_EveryJobTerminates ==
    \A i \in 1..MaxJobs :
        (Len(jobs) >= i) ~> (Len(jobs) >= i /\ JobTerminal(jobs[i]))

(***************************************************************************)
(* Claims on the oracle service                                            *)
(***************************************************************************)
SlashJobFor(s) ==
    \E j \in 1..Len(jobs) : jobs[j].job_type = "slash" /\ jobs[j].stake_id = {s}

\* C6: no reachable state holds a dispute resolved for the reporter or for the
\* disputer whose slashed stake (the disputer's stake, resp. the reporter's)
\* has no slash job in the job ledger.
C6_EverySlashEnqueuesJob ==
    \A d \in 1..Len(disputes) :
        /\ disputes[d].status = "resolved_for_reporter" =>
              SlashJobFor(disputes[d].disputer_stake_id)
        /\ disputes[d].status = "resolved_for_disputer" =>
              \A s \in StakesOf(attestations[disputes[d].attestation_id].reporter_id,
                                {"slashed"}) : SlashJobFor(s)

\* C7: at most one resolve of a dispute takes effect: a resolve succeeds only
\* on a dispute that is open and leaves it not open; no resolve goes on past
\* the status check on a dispute that is not open; a dispute that is not open
\* never changes again; a resolve rejected as already resolved changes no
\* stake, attestation or dispute.
C7_AtMostOneResolveTakesEffect ==
    [][/\ \A d \in 1..Len(disputes) :
             disputes[d].status # "open" => disputes'[d] = disputes[d]
       /\ (res'.op = "resolve" /\ res'.code = 200) =>
             \A d \in res'.ids : disputes[d].status = "open" /\ disputes'[d].status # "open"
       /\ \A p \in Procs :
             (pc[p] = "idle" /\ pc'[p] # "idle" /\ req'[p].op = "resolve") =>
                 disputes[req'[p].disputeId].status = "open"
       /\ (res'.op = "resolve" /\ res'.error = "Dispute already resolved") =>
             UNCHANGED dbvars
      ]_vars

\* C7 witness: a resolve of a dispute that is no longer open has been rejected
C7_Witness ==
    /\ res.op = "resolve"
    /\ res.error = "Dispute already resolved"
    /\ \E d \in 1..Len(disputes) : disputes[d].status # "open"

\* C8: when resolve(disputer_wins) succeeds, then in the state it leaves the
\* dispute is resolved_for_disputer, the attestation is rejected, the
\* disputer's stake named by the dispute is active and a stake of the reporter
\* of the attestation is slashed.
C8_DisputerWinsOutcome ==
    [][\A p \in Procs :
          (/\ pc[p] = "resolve_return_disputer"
           /\ pc'[p] = "idle"
           /\ res'.op = "resolve"
           /\ res'.code = 200) =>
              LET dispute == disputes'[req[p].disputeId]
                  attestation == attestations'[dispute.attestation_id]
              IN  /\ dispute.status = "resolved_for_disputer"
                  /\ attestation.status = "rejected"
                  /\ stakes'[dispute.disputer_stake_id].status = "active"
                  /\ \E s \in 1..Len(stakes') :
                        /\ stakes'[s].user_id = attestation.reporter_id
                        /\ stakes'[s].status = "slashed"
      ]_vars

\* createdAt + disputeWindowHours of an attestation
Deadline(a) == attestations[a].created_at + DISPUTE_WINDOW_HOURS * MS_PER_HOUR

\* this step is the first step of a dispute call on attestation a that passed
\* the validation of the request body
DisputeCalled(a) ==
    \/ \E p \in Procs : /\ pc[p] = "idle"
                        /\ pc'[p] = "dispute_select_stake"
                        /\ req'[p].attestation_id = a
    \/ /\ pc' = pc
       /\ res'.op = "dispute"
       /\ res'.ids = {a}
       /\ res'.error # "Invalid disputed_outcome"

\* C9 as stated: a dispute call made strictly after the deadline of the
\* attestation is rejected with DisputeWindowClosed and changes no stake,
\* dispute or attestation.
C9_LateDisputeWindowClosed ==
    [][\A a \in 1..Len(attestations) :
          (DisputeCalled(a) /\ now > Deadline(a)) =>
              /\ res'.op = "dispute"
              /\ res'.error = "Dispute window closed"
              /\ UNCHANGED dbvars
      ]_vars

\* C9 amended: a well-formed dispute call made strictly after the deadline of
\* the attestation is rejected at once and changes no stake, dispute or
\* attestation; the rejection is DisputeWindowClosed, except that it is
\* "Attestation already disputed" when the attestation is in status disputed.
C9_LateDisputeRejected ==
    [][\A a \in 1..Len(attestations) :
          (DisputeCalled(a) /\ now > Deadline(a)) =>
              /\ pc' = pc
              /\ res'.op = "dispute"
              /\ res'.code = 400
              /\ res'.error = IF attestations[a].status = "disputed"
                              THEN "Attestation already disputed"
                              ELSE "Dispute window closed"
              /\ UNCHANGED dbvars
      ]_vars

\* C9 witness: a dispute of an attestation whose deadline has passed has been
\* rejected because the window is closed
C9_Witness ==
    /\ res.op = "dispute"
    /\ res.error = "Dispute window closed"
    /\ \E a \in res.ids : a \in 1..Len(attestations) /\ now > Deadline(a)

\* C10: every dispute_window_end that is stored with a dispute or sent in a
\* response about attestations is createdAt + disputeWindowHours of each
\* attestation it is given for.
C10_DeadlineSameForEveryReader ==
    /\ \A d \in 1..Len(disputes) :
          disputes[d].dispute_window_end = Deadline(disputes[d].attestation_id)
    /\ \A end \in res.window_end : \A a \in res.ids : end = Deadline(a)

(***************************************************************************)
(* Settlement jobs: cancellation                                           *)
(***************************************************************************)
\* C11: a cancel is accepted exactly when the job is pending at its UPDATE, and
\* then only that job changes, to cancelled; a cancel whose UPDATE found the
\* job in another status is refused with 400 'Job cannot be cancelled', and a
\* refused cancel leaves every job as it was.
C11_CancelOnlyPending ==
    [][/\ res'.op = "cancel" =>
             IF res'.code = 200
             THEN \E i \in 1..Len(jobs) :
                     /\ jobs[i].status = "pending"
                     /\ jobs' = [jobs EXCEPT ![i].status = "cancelled"]
             ELSE jobs' = jobs
       /\ \A p \in Procs :
             /\ (pc[p] = "idle" /\ pc'[p] = "cancel_check_exists") =>
                    /\ jobs' = jobs
                    /\ req'[p].jobId \in 1..Len(jobs) =>
                           jobs[req'[p].jobId].status # "pending"
             /\ (pc[p] = "cancel_check_exists" /\ pc'[p] = "idle"
                    /\ req[p].jobId \in 1..Len(jobs)) =>
                    /\ res'.code = 400
                    /\ res'.error = "Job cannot be cancelled"
      ]_vars

\* C11 witness: with one job cancelled and another still pending, a cancel of
\* a job that is not pending has just been refused
C11_Witness ==
    /\ \E i, j \in 1..Len(jobs) :
          jobs[i].status = "cancelled" /\ jobs[j].status = "pending"
    /\ res.op = "cancel"
    /\ res.error = "Job cannot be cancelled"

(***************************************************************************)
(* Concurrent trades                                                       *)
(***************************************************************************)
\* the labels at which a trade holds the snapshot of the pool it read
TradeHoldsPool ==
    {"trade_select_balance", "trade_calculate", "trade_update_pool",
     "trade_update_market", "trade_update_balance", "trade_update_position",
     "trade_insert_fill", "trade_insert_job", "trade_commit"}

\* C13: concurrent trades on one market are serialised: the committed pool and
\* every fill's shares are those of pricing the committed trades one after the
\* other in commit order; from its read of the pool to its commit a trade
\* holds the pool row's lock alone and the pool it computes against is the
\* committed pool (no lost update); a trade waits at the pool lock only for a
\* trade on the same market.
C13_TradesSerialised ==
    /\ \A m \in Markets :
          /\ PoolFromFills(m).ok
          /\ pools[m].yes_shares = PoolFromFills(m).yes_shares
          /\ pools[m].no_shares = PoolFromFills(m).no_shares
    /\ \A p \in Procs :
          pc[p] \in TradeHoldsPool =>
             /\ loc[p].market.yes_shares = pools[req[p].marketId].yes_shares
             /\ loc[p].market.no_shares = pools[req[p].marketId].no_shares
             /\ \A q \in Procs \ {p} :
                   pc[q] \in TradeHoldsPool => req[q].marketId # req[p].marketId
    /\ \A p \in Procs :
          (/\ pc[p] = "trade_select_market"
           /\ \A q \in Procs \ {p} :
                 pc[q] \in TradeHoldsPool => req[q].marketId # req[p].marketId)
             => ENABLED TradeSelectMarket(p)

\* C13 witness: two trades on the same market have committed, the second
\* priced from the pool the first one left, while a trade on the other market
\* is in flight
C13_Witness ==
    /\ Len(fills) = 2
    /\ fills[1].market_id = fills[2].market_id
    /\ fills[1].quantity # fills[2].quantity
    /\ \E p \in Procs : pc[p] \in TradeHoldsPool /\ req[p].marketId # fills[1].market_id

\* two trades on different markets hold their pool locks at the same time
C13_IndependentMarkets ==
    \E p, q \in Procs :
        /\ pc[p] \in TradeHoldsPool
        /\ pc[q] \in TradeHoldsPool
        /\ req[p].marketId # req[q].marketId

(***************************************************************************)
(* Claims on attestations, disputes and reporters                          *)
(***************************************************************************)
\* C16: no reporter has two attestations for the same market, also when two
\* attest requests of one reporter for one market run concurrently.
C16_OneAttestationPerReporterAndMarket ==
    \A a, b \in 1..Len(attestations) :
        (/\ attestations[a].reporter_id = attestations[b].reporter_id
         /\ attestations[a].market_id = attestations[b].market_id) => a = b

\* C17: a dispute is accepted only against an attestation whose status is
\* pending; an attestation that is disputed, accepted or rejected is never
\* made disputed (again) and no dispute is created against it.
C17_DisputeOnlyPending ==
    [][/\ (res'.op = "dispute" /\ res'.code = 201) =>
             \A a \in res'.ids : attestations[a].status = "pending"
       /\ \A a \in 1..Len(attestations) :
             attestations[a].status \in {"accepted", "rejected"} =>
                attestations'[a].status = attestations[a].status
       /\ \A d \in (Len(disputes) + 1)..Len(disputes') :
             attestations[disputes'[d].attestation_id].status = "pending"
      ]_vars

\* the disputes a step creates
NewDisputes == (Len(disputes) + 1)..Len(disputes')

\* C18: a dispute that is accepted changes the committed store in one step by
\* exactly: a stake of the disputer goes from active to locked, one dispute in
\* status open referencing that stake and the attestation is created, and the
\* attestation becomes disputed; a stake becomes locked and a dispute appears
\* in no other way, and a dispute refused for want of an active stake changes
\* nothing.
C18_DisputeAtomic ==
    [][/\ (res'.op = "dispute" /\ res'.code = 201) <=> NewDisputes # {}
       /\ Cardinality(NewDisputes) <= 1
       /\ \A d \in NewDisputes :
             LET s == disputes'[d].disputer_stake_id
                 a == disputes'[d].attestation_id
             IN  /\ disputes'[d].status = "open"
                 /\ a \in res'.ids
                 /\ stakes[s].user_id = disputes'[d].disputer_id
                 /\ stakes[s].status = "active"
                 /\ stakes' = [stakes EXCEPT ![s].status = "locked"]
                 /\ attestations' = [attestations EXCEPT ![a].status = "disputed"]
       /\ \A s \in 1..Len(stakes) :
             (stakes[s].status # "locked" /\ stakes'[s].status = "locked") =>
                \E d \in NewDisputes : disputes'[d].disputer_stake_id = s
       /\ (res'.op = "dispute" /\ res'.code # 201) => dbvars' = dbvars
      ]_vars

\* C19: a registration is accepted only with a stake of at least MIN_STAKE_ZAT
\* and an available balance of at least the stake at the time of its commit,
\* and its commit, in one step, moves the stake from available to locked
\* (their sum unchanged) and adds exactly one active stake of that amount;
\* nothing else changes a balance or a stake; a refused registration changes
\* neither, and 'Insufficient balance' is answered only when some user's
\* available balance is below the minimum stake.
C19_RegisterReporter ==
    [][/\ \A p \in Procs :
             (pc[p] = "register_write" /\ pc'[p] = "idle") =>
                LET u == req[p].user_id
                    amount == req[p].stake_amount_zat
                IN  /\ res'.op = "register" /\ res'.code = 201
                    /\ amount >= MIN_STAKE_ZAT
                    /\ balances[u].available_zat >= amount
                    /\ balances'[u].available_zat = balances[u].available_zat - amount
                    /\ balances'[u].locked_zat = balances[u].locked_zat + amount
                    /\ \A v \in Users \ {u} : balances'[v] = balances[v]
                    /\ stakes' = Append(stakes, [user_id |-> u, amount_zat |-> amount,
                                                 status |-> "active"])
       /\ (res'.op = "register" /\ res'.code = 201) <=>
             \E p \in Procs : pc[p] = "register_write" /\ pc'[p] = "idle"
       /\ (balances' # balances \/ stakes' # stakes) =>
             (res'.op = "register" /\ res'.code = 201)
       /\ (res'.op = "register" /\ res'.error = "Insufficient balance") =>
             \E u \in Users : balances[u].available_zat < MIN_STAKE_ZAT
       /\ \A u \in Users :
             balances'[u].available_zat + balances'[u].locked_zat
                = balances[u].available_zat + balances[u].locked_zat
      ]_vars

\* C19 witness: one user has registered, the stake moved from available to
\* locked, and a registration of a user whose balance does not cover the
\* stake has just been refused
C19_Witness ==
    /\ \E s \in 1..Len(stakes) :
          /\ stakes[s].status = "active"
          /\ balances[stakes[s].user_id].locked_zat = stakes[s].amount_zat
    /\ res.op = "register"
    /\ res.error = "Insufficient balance"

\* C20: when resolve(reporter_wins) is accepted for an open dispute, the
\* disputer's stake referenced by the dispute is slashed, the dispute is
\* resolved_for_reporter, every stake of the reporter (when the reporter is
\* not the disputer) is as it was, and the attestation is accepted.
C20_ReporterWinsOutcome ==
    [][\A p \in Procs :
          (/\ pc[p] = "resolve_slash_disputer"
           /\ pc'[p] = "idle"
           /\ res'.op = "resolve"
           /\ res'.code = 200) =>
              LET dispute == disputes'[req[p].disputeId]
                  attestation == attestations'[dispute.attestation_id]
              IN  /\ dispute.status = "resolved_for_reporter"
                  /\ stakes'[dispute.disputer_stake_id].status = "slashed"
                  /\ \A s \in 1..Len(stakes) :
                        (stakes[s].user_id = attestation.reporter_id
                           /\ stakes[s].user_id # dispute.disputer_id) =>
                              stakes'[s] = stakes[s]
                  /\ attestation.status = "accepted"
      ]_vars

\* the disputes that a step takes from open to escalated
Escalated == {d \in 1..Len(disputes) :
                 disputes[d].status = "open" /\ disputes'[d].status = "escalated"}

\* C21: resolve(escalate) changes the dispute's status to escalated and
\* nothing else: every stake, every balance, every attestation and every
\* other dispute is as before; an escalated dispute never changes again and
\* no later resolve of it is accepted.
C21_EscalateChangesOnlyDispute ==
    [][/\ \A d \in Escalated :
             /\ stakes' = stakes
             /\ balances' = balances
             /\ attestations' = attestations
             /\ jobs' = jobs
             /\ disputes' = [disputes EXCEPT ![d].status = "escalated"]
             /\ stakes[disputes[d].disputer_stake_id].status = "locked" =>
                    stakes'[disputes[d].disputer_stake_id].status = "locked"
       /\ \A d \in 1..Len(disputes) :
             disputes[d].status = "escalated" =>
                /\ disputes'[d] = disputes[d]
                /\ ~(res'.op = "resolve" /\ res'.code = 200 /\ d \in res'.ids)
      ]_vars

\* C21 witness: a dispute is escalated, the disputer's stake it references is
\* still locked, and a further resolve has just been refused
C21_Witness ==
    /\ \E d \in 1..Len(disputes) :
          /\ disputes[d].status = "escalated"
          /\ stakes[disputes[d].disputer_stake_id].status = "locked"
    /\ res.op = "resolve"
    /\ res.error = "Dispute already resolved"

\* C22: an attestation is never accepted before its dispute window has
\* passed, and a pending attestation whose window has passed without a
\* dispute is eventually accepted.
C22_UndisputedEventuallyAccepted ==
    /\ [](\A a \in 1..Len(attestations) :
             attestations[a].status = "accepted" => now > Deadline(a))
    /\ \A a \in 1..MaxAttestations :
          (/\ Len(attestations) >= a
           /\ attestations[a].status = "pending"
           /\ now > Deadline(a))
             ~> (Len(attestations) >= a /\ attestations[a].status # "pending")

\* C23: a stake that is slashed or withdrawn never changes again.
C23_SlashedStakeIsTerminal ==
    [][\A s \in 1..Len(stakes) :
          stakes[s].status \in {"slashed", "withdrawn"} => stakes'[s] = stakes[s]]_vars

(***************************************************************************)
(* Claims on pool liquidity, amounts and prices                            *)
(***************************************************************************)
\* C24: in every reachable state both sides of every pool are above zero.
C24_PoolSidesPositive ==
    \A m \in Markets : pools[m].yes_shares > 0 /\ pools[m].no_shares > 0

\* the pool a trade handler has read and the result the pricing engine gives
\* for its request
TradeResult(p) ==
    calculateSharesForAmount(loc[p].market.yes_shares, loc[p].market.no_shares,
        req[p].side, req[p].amountZat, FeeBpsOrDefault(loc[p].market.fee_bps))

QuoteResult(p) ==
    calculateSharesForAmount(pools[req[p].marketId].yes_shares,
        pools[req[p].marketId].no_shares, req[p].side, req[p].amountZat,
        FeeBpsOrDefault(pools[req[p].marketId].fee_bps))

TooSmall(result) == ~result.ok /\ result.message = "Trade amount too small"

\* C25: a trade or a quote whose amount buys no share is answered with 400
\* 'Trade amount too small', and the step changes no table.
C25_AmountTooSmall ==
    [][\A p \in Procs :
          /\ (/\ pc[p] = "trade_calculate" /\ pc'[p] = "idle"
              /\ TooSmall(TradeResult(p)))
             => /\ res' = Response("trade", 400, "Trade amount too small")
                /\ dbvars' = dbvars
          /\ (/\ pc[p] = "quote_select" /\ pc'[p] = "idle"
              /\ req[p].marketId \in Markets
              /\ ~markets[req[p].marketId].resolved
              /\ TooSmall(QuoteResult(p)))
             => /\ res' = Response("quote", 400, "Trade amount too small")
                /\ dbvars' = dbvars]_vars

\* the quote half of C25 alone
C25_QuoteTooSmall ==
    [][\A p \in Procs :
          (/\ pc[p] = "quote_select" /\ pc'[p] = "idle"
           /\ req[p].marketId \in Markets
           /\ ~markets[req[p].marketId].resolved
           /\ TooSmall(QuoteResult(p)))
          => /\ res' = Response("quote", 400, "Trade amount too small")
             /\ dbvars' = dbvars]_vars

\* C26: every trade that commits has side yes or no and an amount above zero,
\* does not raise its trader's available balance and does not lower its
\* market's volume.
C26_AcceptedTradeIsPositive ==
    [][\A p \in Procs :
          (pc[p] = "trade_commit" /\ pc'[p] = "idle" /\ res'.code = 200)
          => /\ req[p].side \in Sides
             /\ req[p].amountZat > 0
             /\ balances'[req[p].userId].available_zat
                   <= balances[req[p].userId].available_zat
             /\ markets'[req[p].marketId].volume_zat
                   >= markets[req[p].marketId].volume_zat]_vars

\* the last call of the runner
Call == loc[Tester]
Called(tests) == Call.test \in tests
PricesBefore == getPrices(Call.yesShares, Call.noShares)

\* the price of a side in a set of prices
PriceOf(prices, side) == IF side = "yes" THEN prices.yesPrice ELSE prices.noPrice
Other(side) == IF side = "yes" THEN "no" ELSE "yes"

\* C27: after every accepted buy the price of the bought side is strictly
\* above, and the price of the other side strictly below, the price of the
\* pool the buy was computed on.
C27_BuyMovesPrices ==
    (Called({"trade", "quote"}) /\ Call.result.ok)
    => /\ RatioLess(PriceOf(PricesBefore, Call.side), PriceOf(Call.result, Call.side))
       /\ RatioLess(PriceOf(Call.result, Other(Call.side)),
                    PriceOf(PricesBefore, Other(Call.side)))

\* C27 for the buys whose size is above zero
C27_PositiveBuyMovesPrices ==
    (Called({"trade", "quote"}) /\ Call.result.ok /\ Call.amount > 0)
    => /\ RatioLess(PriceOf(PricesBefore, Call.side), PriceOf(Call.result, Call.side))
       /\ RatioLess(PriceOf(Call.result, Other(Call.side)),
                    PriceOf(PricesBefore, Other(Call.side)))

\* |x - y| of two Numbers kept as pairs, as a pair with a denominator above zero
RatioDistance(x, y) == <<Abs(x[1] * y[2] - y[1] * x[2]), Abs(x[2] * y[2])>>

\* how far a result has moved the price of the bought side
Impact(result) ==
    RatioDistance(PriceOf(result, Call.side), PriceOf(PricesBefore, Call.side))

\* C28: of two accepted buys of the same side at the same pool state, the
\* larger moves the price of that side strictly further than the smaller.
C28_LargerBuyLargerImpact ==
    (Called({"sizes"}) /\ Call.result.ok /\ Call.other.ok)
    => RatioLess(Impact(Call.result), Impact(Call.other))

\* C28 for share-denominated buys (calculateTrade)
C28_LargerShareBuyLargerImpact ==
    (Called({"sizes"}) /\ Call.fn = "calculateTrade" /\ Call.result.ok /\ Call.other.ok)
    => RatioLess(Impact(Call.result), Impact(Call.other))

\* C28 for buys with an amount above zero
C28_LargerPositiveBuyLargerImpact ==
    (Called({"sizes"}) /\ Call.amount > 0 /\ Call.result.ok /\ Call.other.ok)
    => RatioLess(Impact(Call.result), Impact(Call.other))

\* for buys with an amount above zero the larger never moves the price less
C28_LargerPositiveBuyNoSmallerImpact ==
    (Called({"sizes"}) /\ Call.amount > 0 /\ Call.result.ok /\ Call.other.ok)
    => ~RatioLess(Impact(Call.other), Impact(Call.result))

\* C29: a buy computed with a fee rate above zero records a fee above zero;
\* calculateSharesForAmount gives it no more shares than the same buy at fee
\* rate zero, calculateTrade gives it a strictly higher total cost.
C29_FeeEffect ==
    (Called({"fees"}) /\ Call.result.ok)
    => /\ Call.result.fee > 0
       /\ Call.fn = "calculateSharesForAmount"
             => (Call.other.ok /\ Call.result.shares <= Call.other.shares)
       /\ Call.fn = "calculateTrade"
             => (Call.other.ok /\ Call.result.totalCost > Call.other.totalCost)

\* the comparison with the zero-fee buy alone, for sizes above zero
C29_NoMoreSharesThanZeroFee ==
    (Called({"fees"}) /\ Call.result.ok /\ Call.amount > 0)
    => /\ Call.other.ok
       /\ Call.result.fee >= 0
       /\ Call.fn = "calculateSharesForAmount"
             => Call.result.shares <= Call.other.shares
       /\ Call.fn = "calculateTrade"
             => Call.result.totalCost >= Call.other.totalCost

\* C29 for sizes above zero
C29_PositiveFeeEffect ==
    (Called({"fees"}) /\ Call.result.ok /\ Call.amount > 0) => Call.result.fee > 0

\* the pool product before and after the last call, and the side it bought
ProductBefore == Call.yesShares * Call.noShares
ProductAfter == Call.result.newYesShares * Call.result.newNoShares
BoughtSideAfter ==
    IF Call.side = "yes" THEN Call.result.newYesShares ELSE Call.result.newNoShares

\* C30: an accepted calculateTrade never lowers the pool product and raises it
\* by less than the shares left on the bought side, and along a sequence of
\* such trades applied to the pool the product never decreases.
C30_ProductDrift ==
    /\ []((Called({"trade"}) /\ Call.result.ok)
            => /\ ProductAfter >= ProductBefore
               /\ ProductAfter - ProductBefore < BoughtSideAfter)
    /\ [][pools'["m1"].yes_shares * pools'["m1"].no_shares
             >= pools["m1"].yes_shares * pools["m1"].no_shares]_vars

\* the second trade of a sequence was accepted and its round-up raised the product
C30_Witness ==
    /\ Called({"trade"})
    /\ Call.result.ok
    /\ Call.applied > 1
    /\ ProductAfter > ProductBefore
    /\ pools["m1"].yes_shares = Call.result.newYesShares
    /\ pools["m1"].no_shares = Call.result.newNoShares

(***************************************************************************)
(* Claims on job submission, fills, positions and quotes                   *)
(***************************************************************************)
\* C31: no two persisted jobs of the same type carry the same stake reference.
C31_OneJobPerReference ==
    \A i, j \in 1..Len(jobs) :
        (/\ i # j
         /\ jobs[i].stake_id # {}
         /\ jobs[i].job_type = jobs[j].job_type)
        => jobs[i].stake_id # jobs[j].stake_id

\* x = a / b for a Number kept as a pair
RatioIs(x, a, b) == x[2] # 0 /\ b # 0 /\ x[1] * b = a * x[2]

\* C32: on a pool with positive shares getPrices gives yesPrice =
\* noShares / (yesShares + noShares) and noPrice = yesShares / (yesShares +
\* noShares); the two sum to 1 and the side with more shares has the lower price.
C32_Prices ==
    (Called({"prices"}) /\ Call.yesShares > 0 /\ Call.noShares > 0)
    => LET yesPrice == Call.result.yesPrice
           noPrice == Call.result.noPrice
       IN  /\ RatioIs(yesPrice, Call.noShares, Call.yesShares + Call.noShares)
           /\ RatioIs(noPrice, Call.yesShares, Call.yesShares + Call.noShares)
           /\ yesPrice[1] * noPrice[2] + noPrice[1] * yesPrice[2]
                 = yesPrice[2] * noPrice[2]
           /\ Call.yesShares > Call.noShares => RatioLess(yesPrice, noPrice)
           /\ Call.noShares > Call.yesShares => RatioLess(noPrice, yesPrice)

\* prices were read from a pool that trades have left with more yes than no shares
C32_Witness ==
    /\ Called({"prices"})
    /\ Call.applied > 0
    /\ Call.yesShares > Call.noShares
    /\ Call.noShares > 0

\* a trade handler commits in this step
TradeCommits(p) == pc[p] = "trade_commit" /\ pc'[p] = "idle" /\ res'.code = 200

\* C33: fills and jobs correspond one to one: job i is the pending, shielded
\* trade_settlement job of fill i, with the fill's user, market and amount;
\* a committing trade adds exactly one fill and one job, nothing else adds
\* either, and a fill never changes once it exists.
C33_OneFillOneJobPerTrade ==
    /\ [](/\ Len(jobs) = Len(fills)
          /\ \A i \in 1..Len(fills) :
                /\ jobs[i].job_type = "trade_settlement"
                /\ jobs[i].status = "pending"
                /\ jobs[i].tx_type = "shielded"
                /\ jobs[i].fill_id = i
                /\ jobs[i].user_id = fills[i].user_id
                /\ jobs[i].market_id = fills[i].market_id
                /\ jobs[i].amount_zat = fills[i].amount_zat)
    /\ [][/\ Len(fills') >= Len(fills)
          /\ \A i \in 1..Len(fills) : fills'[i] = fills[i]
          /\ (\E p \in Procs : TradeCommits(p))
                => (Len(fills') = Len(fills) + 1 /\ Len(jobs') = Len(jobs) + 1)
          /\ (Len(fills') # Len(fills) \/ Len(jobs') # Len(jobs))
                => \E p \in Procs : TradeCommits(p)]_vars

\* two trades have committed, the second with an amount above zero
C33_Witness ==
    /\ Len(fills) > 1
    /\ Len(jobs) > 1
    /\ jobs[2].fill_id = 2
    /\ fills[2].amount_zat > 0

\* sum of the amounts of a user's stakes
StakeTotal(u) ==
    SumSeq([i \in 1..Len(stakes) |-> IF stakes[i].user_id = u THEN stakes[i].amount_zat
                                                              ELSE 0])

\* C34: whatever the interleaving of trades and registrations, a user's
\* available balance is never negative and equals the starting balance minus
\* the amounts of the user's committed trades and registrations.
C34_BalanceSerialised ==
    \A u \in Users :
        /\ balances[u].available_zat >= 0
        /\ balances[u].available_zat =
              TraderBalanceZat
                - FillTotal(LAMBDA f : f.user_id = u, LAMBDA f : f.amount_zat)
                - StakeTotal(u)

\* a user has spent the whole balance on one trade and one stake
C34_Witness ==
    \E u \in Users :
        /\ balances[u].available_zat = 0
        /\ StakeTotal(u) = MIN_STAKE_ZAT
        /\ \E i \in 1..Len(fills) : fills[i].user_id = u /\ fills[i].amount_zat = 2 * SCALE

\* a trade handler that has priced its trade on the pool as it is now committed
PricedOnThisPool(p, m) ==
    /\ pc[p] \in TradeLabels \ {"trade_select_market", "trade_select_balance",
                                 "trade_calculate"}
    /\ req[p].marketId = m
    /\ loc[p].market.yes_shares = pools[m].yes_shares
    /\ loc[p].market.no_shares = pools[m].no_shares

\* C35: a quote changes no table, and a quote answered for the market, side
\* and amount of a trade that was priced on the same pool state carries the
\* shares, the new prices, the average price and the fee of that trade.
C35_QuoteMatchesTrade ==
    [][\A q \in Procs :
          (pc[q] = "quote_select" /\ pc'[q] = "idle")
          => /\ dbvars' = dbvars
             /\ res'.code = 200 =>
                  \A p \in Procs \ {q} :
                     (/\ PricedOnThisPool(p, req[q].marketId)
                      /\ req[p].side = req[q].side
                      /\ req[p].amountZat = req[q].amountZat)
                     => /\ res'.quote.shares = loc[p].trade.shares
                        /\ res'.quote.newYesPrice = loc[p].trade.yesPrice
                        /\ res'.quote.newNoPrice = loc[p].trade.noPrice
                        /\ res'.quote.avgPrice = loc[p].trade.avgPrice
                        /\ res'.quote.fee = loc[p].trade.fee]_vars

\* a quote has been answered while a trade of the same market, side and amount,
\* priced on the same pool state, waits to commit
C35_Witness ==
    /\ res.op = "quote"
    /\ res.code = 200
    /\ \E p \in Procs :
          /\ pc[p] = "trade_commit"
          /\ PricedOnThisPool(p, req[p].marketId)
          /\ res.quote.shares = loc[p].trade.shares
          /\ pools[req[p].marketId].fee_bps = HalfFeeBps

C36_ExactAverage ==
    \A key \in DOMAIN positions :
        positions[key].avg_price[1] * positions[key].shares
            = positions[key].cost_basis_zat * positions[key].avg_price[2]

AtConfiguredFee(yesShares, noShares, fee_bps, side, amountZat) ==
    calculateSharesForAmount(yesShares, noShares, side, amountZat, fee_bps)

\* C37: a trade and a quote are priced at the fee_bps of the market's pool,
\* zero included: the shares and the fee they carry are those of the pricing
\* engine at that rate.
C37_ConfiguredFeeCharged ==
    [][\A p \in Procs :
          /\ (pc[p] = "trade_calculate" /\ pc'[p] = "trade_update_pool")
             => LET at == AtConfiguredFee(loc[p].market.yes_shares,
                              loc[p].market.no_shares, loc[p].market.fee_bps,
                              req[p].side, req[p].amountZat)
                IN  /\ at.ok
                    /\ loc'[p].trade.shares = at.shares
                    /\ loc'[p].trade.fee = at.fee
          /\ (pc[p] = "quote_select" /\ pc'[p] = "idle" /\ res'.code = 200)
             => LET m == req[p].marketId
                    at == AtConfiguredFee(pools[m].yes_shares, pools[m].no_shares,
                              pools[m].fee_bps, req[p].side, req[p].amountZat)
                IN  /\ at.ok
                    /\ res'.quote.shares = at.shares
                    /\ res'.quote.fee = at.fee]_vars

\* C37 for the pools configured with a fee above zero
C37_NonZeroFeeCharged ==
    [][\A p \in Procs :
          /\ (pc[p] = "trade_calculate" /\ pc'[p] = "trade_update_pool"
                /\ loc[p].market.fee_bps # 0)
             => LET at == AtConfiguredFee(loc[p].market.yes_shares,
                              loc[p].market.no_shares, loc[p].market.fee_bps,
                              req[p].side, req[p].amountZat)
                IN  /\ at.ok
                    /\ loc'[p].trade.shares = at.shares
                    /\ loc'[p].trade.fee = at.fee
          /\ (pc[p] = "quote_select" /\ pc'[p] = "idle" /\ res'.code = 200
                /\ pools[req[p].marketId].fee_bps # 0)
             => LET m == req[p].marketId
                    at == AtConfiguredFee(pools[m].yes_shares, pools[m].no_shares,
                              pools[m].fee_bps, req[p].side, req[p].amountZat)
                IN  /\ at.ok
                    /\ res'.quote.shares = at.shares
                    /\ res'.quote.fee = at.fee]_vars

(***************************************************************************)
(* Claims on reporter stakes, concurrent disputes and row locks            *)
(***************************************************************************)
\* C38: in every reachable state a user holds at most one reporter stake in
\* status active, whatever registrations, disputes and resolutions ran.
C38_OneActiveStake ==
    \A u \in Users : Cardinality(StakesOf(u, {"active"})) <= 1

\* C38 while no dispute was ever filed: registration alone keeps one active stake
C38_OneActiveStakeUndisputed ==
    disputes = <<>> /\ (\A p \in Procs : pc[p] \notin DisputeLabels)
        => \A u \in Users : Cardinality(StakesOf(u, {"active", "locked"})) <= 1

\* the disputes in status open
OpenDisputes == {d \in 1..Len(disputes) : disputes[d].status = "open"}

\* C39: open disputes are pairwise distinct in their attestation and in the
\* stake that backs them, for any interleaving of concurrent dispute calls.
C39_OpenDisputesDistinct ==
    \A d, e \in OpenDisputes :
        d # e => /\ disputes[d].attestation_id # disputes[e].attestation_id
                 /\ disputes[d].disputer_stake_id # disputes[e].disputer_stake_id

\* C39 for the attestation alone: no attestation has two open disputes
C39_OneOpenDisputePerAttestation ==
    \A d, e \in OpenDisputes :
        d # e => disputes[d].attestation_id # disputes[e].attestation_id

\* C39 for the stake alone: no stake backs two open disputes
C39_OneOpenDisputePerStake ==
    \A d, e \in OpenDisputes :
        d # e => disputes[d].disputer_stake_id # disputes[e].disputer_stake_id

\* the row lock the next statement of a transaction of either service waits for
WantsRow(p) ==
    CASE pc[p] = "trade_select_market" -> <<"liquidity_pools", req[p].marketId>>
      [] pc[p] = "trade_select_balance" -> <<"balances", req[p].userId>>
      [] OTHER -> Wants(p)

\* two transactions each wait for a row lock the other holds
CyclicWait(p, q) == p # q /\ WantsRow(p) \in locks[q] /\ WantsRow(q) \in locks[p]

\* C40: no interleaving of concurrent transactions produces a cyclic wait on
\* row locks, so none is aborted as a deadlock victim, two resolves of
\* different disputes between the same two users in swapped roles included.
C40_NoCyclicWait ==
    \A p, q \in Procs : ~CyclicWait(p, q)

\* C40 for the handler that is aborted: no resolve is answered 500
C40_NoDeadlockVictim ==
    [][~(res'.op = "resolve" /\ res'.code = 500)]_vars

\* C40 for trades and registrations: the pool row is locked before the balance
\* row by every trade and a registration locks one row, so no two of them wait
\* for each other
C40_NoCyclicWaitEngine ==
    \A p, q \in Procs :
        pc[p] \in {"trade_select_market", "trade_select_balance"} => ~CyclicWait(p, q)

\* a trade waits for a row that a registration or another trade holds
C40_EngineWaits ==
    \E p, q \in Procs :
        /\ p # q
        /\ pc[p] = "trade_select_balance"
        /\ locks[p] # {}
        /\ WantsRow(p) \in locks[q]

\* two resolves of different disputes whose reporter and disputer are the same
\* two users in swapped roles, each user holding one stake
SwappedRoles(p, q) ==
    /\ pc[p] = "resolve_return_disputer"
    /\ pc[q] = "resolve_return_disputer"
    /\ req[p].disputeId # req[q].disputeId
    /\ loc[p].dispute.disputer_id # loc[q].dispute.disputer_id
    /\ loc[p].reporter_id = loc[q].dispute.disputer_id
    /\ loc[q].reporter_id = loc[p].dispute.disputer_id
    /\ \A u \in Users : Cardinality(StakesOf(u, {"active", "locked", "slashed"})) <= 1

\* C40 for the case it names: two resolves in swapped roles do not wait for
\* each other
C40_NoCyclicWaitSwappedRoles ==
    \A p, q \in Procs : SwappedRoles(p, q) => ~CyclicWait(p, q)

====
